---------------------------- MODULE Spec2Model ----------------------------
(***************************************************************************)
(* electron-infra-kit: the window registry (WindowStore), the window       *)
(* operations built on it (WindowEvents, WindowManager), the               *)
(* create-or-restore-and-show helper (WindowCreator) and the shared-state  *)
(* bridge (WindowBridge).                                                  *)
(*                                                                         *)
(* Strings are modelled as sequences of atoms joined by "-", so that       *)
(* `window-${id}` is <<"window">> \o id and `${name}-${Date.now()}` is     *)
(* name \o <<ToString(now)>>.  The empty sequence is the falsy string:     *)
(* it stands for both undefined and ''.                                    *)
(***************************************************************************)
EXTENDS Integers, Sequences, FiniteSets, TLC

(***************************************************************************)
(* Bounds of the model.                                                    *)
(***************************************************************************)
\* WindowStore.MAX_WINDOWS is 50 in the source; the model scales it down.
MAX_WINDOWS == 2
\* number of BrowserWindow objects the host constructs in one behaviour
MaxHandles == 3
\* number of ids uuidv4() hands out in one behaviour
MaxUuid == 1
\* values Date.now() takes: 0 .. MaxTime
MaxTime == 1
\* WindowCreator.showWindow gives up when retryCount >= 3
MaxRetries == 3
\* the same two bounds where the registry is filled before and during a
\* createAndShow invocation
CapacityHandles == 4
CapacityUuid == 2
\* number of times the invocations of a second WindowCreator show one window
MaxShows == 2
\* number of listeners added with registerHandler
MaxListeners == 2
\* number of message channels created in one behaviour
MaxPorts == 2
\* number of successful setData/deleteData calls in one behaviour
MaxCalls == 2

(***************************************************************************)
(* Values.                                                                 *)
(***************************************************************************)
Undefined == <<>>
NoWindow == 0
Handles == 1..MaxHandles
SuppliedIds == {<<"x">>}
SuppliedNames == {<<"a">>, <<"x">>}
Uuid(n) == <<"uuid", ToString(n)>>
CapacityError == <<"Maximum window limit reached">>
Keys == {<<"k1">>, <<"k2">>}
Values == {<<"v1">>, <<"v2">>}
BridgeWindows == {<<"w1">>, <<"w2">>}
DefaultEventName == <<"window-state-changed">>
EventNames == {<<"custom">>}

VARIABLES
    \* WindowStore
    windows,            \* Map<string, BrowserWindow>: id -> handle
    windowNames,        \* Map<string, string>: name -> id
    windowIds,          \* Map<string, string>: id -> name
    windowInstanceIds,  \* Map<BrowserWindow, string>: handle -> id
    mainWindow,         \* _mainWindow: handle or NoWindow (null)
    \* host windowing runtime
    hostWindows,        \* BrowserWindow objects constructed so far
    destroyed,          \* handles for which isDestroyed() is true
    now,                \* Date.now()
    uuids,              \* number of ids uuidv4() has produced
    readyListeners,     \* handle -> listeners added with once('ready-to-show')
    readyFired,         \* handles whose 'ready-to-show' event has fired
    shown,              \* handle -> number of show() calls made on it
    \* WindowManager
    ready,              \* WindowManager.ready
    \* WindowCreator: the instance createAndShow is invoked on
    creator,
    \* WindowBridge
    dataStore,          \* Map<string, DataStoreItem>: key -> [value, permission]
    windowPorts,        \* Map<string, MessagePortMain> in insertion order:
                        \* a sequence of [windowId, port]
    ports,              \* the channels created so far, port1 of each:
                        \* port -> [windowId, closes, posted, remote, since]
    emitted,            \* what emit() handed to the local listeners, in order
    calls,              \* number of setData/deleteData calls that succeeded
    sendFailed,         \* <<port, call>>: postMessage of that event threw
    messageHandlers,    \* Map<string, BridgeMessageHandler>: name -> callback
    localListeners,     \* the listeners added with registerHandler, in order:
                        \* [eventName, kind, seen], seen the events received
    \* the last call and its result
    last

storeVars == <<windows, windowNames, windowIds, windowInstanceIds, mainWindow>>
hostVars == <<hostWindows, destroyed, now, uuids, readyListeners, readyFired,
              shown, ready>>
bridgeVars == <<dataStore, windowPorts, ports, emitted, calls, sendFailed,
                messageHandlers, localListeners>>
vars == <<storeVars, hostVars, creator, bridgeVars, last>>

(***************************************************************************)
(* Maps.                                                                   *)
(***************************************************************************)
MapSet(m, k, v) == [x \in DOMAIN m \cup {k} |-> IF x = k THEN v ELSE m[x]]
MapDelete(m, k) == [x \in DOMAIN m \ {k} |-> m[x]]
MapGet(m, k, dflt) == IF k \in DOMAIN m THEN m[k] ELSE dflt
EmptyMap == [x \in {} |-> 0]

\* The registry and the part of the host its methods read and write.
Store ==
    [windows |-> windows, windowNames |-> windowNames, windowIds |-> windowIds,
     windowInstanceIds |-> windowInstanceIds, mainWindow |-> mainWindow,
     hostWindows |-> hostWindows, destroyed |-> destroyed,
     now |-> now, uuids |-> uuids, readyListeners |-> readyListeners,
     readyFired |-> readyFired, shown |-> shown, ready |-> ready]

SetStore(s) ==
    /\ windows' = s.windows
    /\ windowNames' = s.windowNames
    /\ windowIds' = s.windowIds
    /\ windowInstanceIds' = s.windowInstanceIds
    /\ mainWindow' = s.mainWindow
    /\ hostWindows' = s.hostWindows
    /\ destroyed' = s.destroyed
    /\ now' = s.now
    /\ uuids' = s.uuids
    /\ readyListeners' = s.readyListeners
    /\ readyFired' = s.readyFired
    /\ shown' = s.shown
    /\ ready' = s.ready

(***************************************************************************)
(* WindowStore                                                             *)
(***************************************************************************)
getNameByWindowId(s, windowId) == MapGet(s.windowIds, windowId, Undefined)

getWindowById(s, windowId) == MapGet(s.windows, windowId, NoWindow)

hasById(s, windowId) == windowId \in DOMAIN s.windows

hasByName(s, proposedName) == proposedName \in DOMAIN s.windowNames

getWindowByNameId(s, name) == MapGet(s.windowNames, name, Undefined)

getWindowByName(s, name) ==
    LET windowId == getWindowByNameId(s, name)
    IN  IF windowId # Undefined THEN MapGet(s.windows, windowId, NoWindow)
        ELSE NoWindow

\* focusedWindow: what BrowserWindow.getFocusedWindow() answers at the call.
getCurrentWindow(s, focusedWindow) ==
    IF focusedWindow # NoWindow /\ focusedWindow \notin s.destroyed
    THEN focusedWindow
    ELSE s.mainWindow

\* A resolution that tries the name index before the id index.
getTargetWindowNameFirst(s, windowId, focusedWindow) ==
    IF windowId = Undefined THEN getCurrentWindow(s, focusedWindow)
    ELSE IF getWindowByName(s, windowId) # NoWindow THEN getWindowByName(s, windowId)
    ELSE getWindowById(s, windowId)

getTargetWindow(s, windowId, focusedWindow) ==
    IF windowId = Undefined THEN getCurrentWindow(s, focusedWindow)
    ELSE IF getWindowById(s, windowId) # NoWindow THEN getWindowById(s, windowId)
    ELSE getWindowByName(s, windowId)

getWindowId(s, window) == MapGet(s.windowInstanceIds, window, Undefined)

deleteByName(s, proposedName) ==
    [s EXCEPT !.windowNames = MapDelete(@, proposedName)]

deleteById(s, windowId) ==
    [s EXCEPT !.windows = MapDelete(@, windowId)]

\* An updateWindowName that leaves the current name in the index.
updateWindowNameKeeping(s, windowId, newName) ==
    [s EXCEPT !.windowNames = MapSet(@, newName, windowId),
              !.windowIds = MapSet(@, windowId, newName)]

updateWindowName(s, windowId, newName) ==
    LET currentName == getNameByWindowId(s, windowId)
        s1 == IF currentName # Undefined THEN deleteByName(s, currentName) ELSE s
    IN  [s1 EXCEPT !.windowNames = MapSet(@, newName, windowId),
                   !.windowIds = MapSet(@, windowId, newName)]

registerWindow(s, id, name, window) ==
    [s EXCEPT !.windows = MapSet(@, id, window),
              !.windowNames = MapSet(@, name, id),
              !.windowIds = MapSet(@, id, name),
              !.windowInstanceIds = MapSet(@, window, id),
              !.mainWindow = IF @ = NoWindow THEN window ELSE @]

\* validateWindowName throws when the name is taken; createWindow catches it
\* and appends the current time, without validating the new name.
validateWindowName(s, proposedName) ==
    IF hasByName(s, proposedName) THEN proposedName \o <<ToString(s.now)>>
    ELSE proposedName

\* A capacity test that lets one window too many in.
CapacityReachedLate(s) == Cardinality(DOMAIN s.windows) > MAX_WINDOWS

CapacityReached(s) == Cardinality(DOMAIN s.windows) >= MAX_WINDOWS

\* A createWindow that registers the window and then tests the capacity.
createWindowRegistering(s, window, config) ==
    LET fresh == config.windowId = Undefined
        windowId == IF fresh THEN Uuid(s.uuids + 1) ELSE config.windowId
        windowName == IF config.name # Undefined THEN config.name
                      ELSE <<"window">> \o windowId
        s1 == IF fresh THEN [s EXCEPT !.uuids = @ + 1] ELSE s
        s2 == registerWindow(s1, windowId, validateWindowName(s, windowName),
                             window)
    IN  [s |-> s2,
         res |-> IF CapacityReached(s) THEN CapacityError ELSE windowId]

\* createWindow(window, config): the new store and the returned id, or the
\* unchanged store and CapacityError when the call throws.
createWindow(s, window, config) ==
    IF CapacityReached(s) THEN [s |-> s, res |-> CapacityError]
    ELSE LET fresh == config.windowId = Undefined
             windowId == IF fresh THEN Uuid(s.uuids + 1) ELSE config.windowId
             windowName == IF config.name # Undefined THEN config.name
                           ELSE <<"window">> \o windowId
             s1 == IF fresh THEN [s EXCEPT !.uuids = @ + 1] ELSE s
         IN  [s |-> registerWindow(s1, windowId,
                                   validateWindowName(s, windowName), window),
              res |-> windowId]

\* A removeWindow that forgets the main window whenever it closes nothing.
removeWindowResettingMain(s, windowId, closeThrows) ==
    LET name == getNameByWindowId(s, windowId)
        s1 == IF name # Undefined THEN deleteByName(s, name) ELSE s
        window == MapGet(s1.windows, windowId, NoWindow)
    IN  IF window # NoWindow /\ window \notin s1.destroyed
        THEN [s1 EXCEPT !.windowInstanceIds = MapDelete(@, window),
                        !.destroyed = IF closeThrows THEN @ ELSE @ \cup {window},
                        !.windows = MapDelete(@, windowId),
                        !.windowIds = MapDelete(@, windowId),
                        !.mainWindow = IF @ = window THEN NoWindow ELSE @]
        ELSE [s1 EXCEPT !.mainWindow = NoWindow]

\* removeWindow(windowId); closeThrows: window.close() raises, which the
\* try/catch logs (the handle is then left as it was).
removeWindow(s, windowId, closeThrows) ==
    LET name == getNameByWindowId(s, windowId)
        s1 == IF name # Undefined THEN deleteByName(s, name) ELSE s
        window == MapGet(s1.windows, windowId, NoWindow)
    IN  IF window # NoWindow /\ window \notin s1.destroyed
        THEN [s1 EXCEPT !.windowInstanceIds = MapDelete(@, window),
                        !.destroyed = IF closeThrows THEN @ ELSE @ \cup {window},
                        !.windows = MapDelete(@, windowId),
                        !.windowIds = MapDelete(@, windowId),
                        !.mainWindow = IF @ = window THEN NoWindow ELSE @]
        ELSE s1

(***************************************************************************)
(* The host windowing runtime.                                             *)
(***************************************************************************)
NewWindow(s) == Cardinality(s.hostWindows) + 1

\* new BrowserWindow(...)
construct(s) ==
    [s EXCEPT !.hostWindows = @ \cup {NewWindow(s)},
              !.readyListeners = MapSet(@, NewWindow(s), <<>>),
              !.shown = MapSet(@, NewWindow(s), 0)]

\* window.once('ready-to-show', listener)
once(s, window, listener) ==
    [s EXCEPT !.readyListeners = MapSet(@, window, Append(@[window], listener))]

\* The behaviour stays within the bounds of the model.
WithinBoundsOf(s, maxHandles, maxUuid) ==
    s.hostWindows \subseteq 1..maxHandles /\ s.uuids <= maxUuid

WithinBounds(s) == WithinBoundsOf(s, MaxHandles, MaxUuid)

(***************************************************************************)
(* WindowEvents                                                            *)
(***************************************************************************)
isDestroyed(s, windowId, focusedWindow) ==
    LET window == getTargetWindow(s, windowId, focusedWindow)
    IN  window = NoWindow \/ window \in s.destroyed

\* getValidWindow(windowId): null when the target is missing or destroyed
getValidWindow(s, windowId, focusedWindow) ==
    LET window == getTargetWindow(s, windowId, focusedWindow)
    IN  IF window = NoWindow \/ window \in s.destroyed THEN NoWindow ELSE window

\* An operation that resolves its target without the validity check.
windowOperationUnchecked(s, op, windowId, focusedWindow) ==
    LET window == getTargetWindow(s, windowId, focusedWindow)
    IN  [invoked |-> window,
         raised |-> window # NoWindow /\ window \in s.destroyed]

\* minimize, restore, maximize, unmaximize, fullScreen, focus: the handle a
\* method is invoked on (NoWindow when the ?. finds null), and whether the
\* invocation raises because the handle is destroyed.  minimize resolves
\* with getTargetWindow, the others with getValidWindow.
windowOperation(s, op, windowId, focusedWindow) ==
    LET window == IF op = "minimize"
                  THEN getTargetWindow(s, windowId, focusedWindow)
                  ELSE getValidWindow(s, windowId, focusedWindow)
    IN  [invoked |-> window,
         raised |-> window # NoWindow /\ window \in s.destroyed]

\* winClose(windowId): removeWindow, then quit; invoked is the handle that
\* removeWindow calls close() on, quits the number of app.quit() calls.
winClose(s, windowId, closeThrows) ==
    LET window == getWindowById(s, windowId)
    IN  [s |-> removeWindow(s, windowId, closeThrows),
         invoked |-> IF window # NoWindow /\ window \notin s.destroyed
                     THEN window ELSE NoWindow,
         quits |-> 1]

\* show(window, windowId): window.show(), then setSkipTaskbar(windowId, false),
\* which changes nothing the model records.
show(s, window, windowId) == [s EXCEPT !.shown = MapSet(@, window, @[window] + 1)]

(***************************************************************************)
(* WindowManager                                                           *)
(***************************************************************************)
getMainWindowId(s) ==
    IF s.mainWindow # NoWindow THEN getWindowId(s, s.mainWindow) ELSE Undefined

\* openDevTools and setWindowOpenHandler act on the host only.
configureWindowBehavior(s, window, windowId) ==
    once(s, window, [kind |-> "readyToShow", winId |-> Undefined])

readyToShow(s, window) == [s EXCEPT !.ready = TRUE]

\* create(config): the id it returns; threw when createWindow raised the
\* capacity error, after the BrowserWindow was constructed.
managerCreate(s, config) ==
    IF \/ config.name # Undefined /\ hasByName(s, config.name)
       \/ config.windowId # Undefined /\ hasById(s, config.windowId)
    THEN [s |-> s, res |-> getMainWindowId(s), threw |-> FALSE]
    ELSE LET newWindow == NewWindow(s)
             r == createWindow(construct(s), newWindow, config)
         IN  IF r.res = CapacityError
             THEN [s |-> r.s, res |-> CapacityError, threw |-> TRUE]
             ELSE [s |-> configureWindowBehavior(r.s, newWindow, r.res),
                   res |-> r.res, threw |-> FALSE]

(***************************************************************************)
(* WindowCreator.  The injected frame's create(options) is                 *)
(* WindowManager.create on the registry that api.window exposes.           *)
(* Fields of the instance: winId (this.winId), name (the name that         *)
(* data.data or extraOptions puts into the options).  The other fields     *)
(* record the invocation: isNew of the last createWindow pass, the retry   *)
(* count of the scheduled retry, the number of frame.create calls, of      *)
(* recovery cycles started, whether every showWindow pass found the        *)
(* window missing or destroyed, whether the supplied id was registered     *)
(* with a destroyed handle at the call, and what the call returned.        *)
(***************************************************************************)
NoCreator ==
    [pc |-> "none", variant |-> "none", winId |-> Undefined, name |-> Undefined,
     isNew |-> FALSE, retryCount |-> 0, factoryCalls |-> 0, recoveries |-> 0,
     allFailed |-> TRUE, supplied |-> Undefined, stale |-> FALSE,
     firstIsNew |-> FALSE, returned |-> Undefined]

Variants == {"retry", "current"}

creatorOptions(c) == [name |-> c.name, windowId |-> c.winId]

frameCreate(s, c) ==
    LET r == managerCreate(s, creatorOptions(c))
    IN  IF r.threw
        THEN [s |-> r.s, c |-> [c EXCEPT !.factoryCalls = @ + 1, !.pc = "threw"]]
        ELSE [s |-> r.s, c |-> [c EXCEPT !.factoryCalls = @ + 1, !.winId = r.res,
                                         !.isNew = TRUE]]

\* A createWindow that never reuses a registered window.
createWindowCurrentNoReuse(s, c) ==
    IF c.winId # Undefined /\ hasById(s, c.winId) /\ isDestroyed(s, c.winId, NoWindow)
    THEN frameCreate(removeWindow(s, c.winId, FALSE), c)
    ELSE frameCreate(s, c)

\* window-manager/WindowCreator.ts
createWindowCurrent(s, c) ==
    IF c.winId # Undefined /\ hasById(s, c.winId)
    THEN IF isDestroyed(s, c.winId, NoWindow)
         THEN frameCreate(removeWindow(s, c.winId, FALSE), c)
         ELSE [s |-> s, c |-> [c EXCEPT !.isNew = FALSE]]
    ELSE frameCreate(s, c)

\* A showWindow that shows at once, new window or not.
showWindowCurrentAtOnce(s, c, focusedWindow) ==
    LET win == getTargetWindow(s, c.winId, focusedWindow)
    IN  IF win = NoWindow \/ win \in s.destroyed
        THEN [s |-> s, c |-> [c EXCEPT !.pc = "done"]]
        ELSE [s |-> show(s, win, c.winId),
              c |-> [c EXCEPT !.pc = "done", !.allFailed = FALSE]]

showWindowCurrent(s, c, focusedWindow) ==
    LET win == getTargetWindow(s, c.winId, focusedWindow)
    IN  IF win = NoWindow \/ win \in s.destroyed
        THEN [s |-> s, c |-> [c EXCEPT !.pc = "done"]]
        ELSE [s |-> IF c.isNew
                    THEN once(s, win, [kind |-> "show", winId |-> c.winId])
                    ELSE show(s, win, c.winId),
              c |-> [c EXCEPT !.pc = "done", !.allFailed = FALSE]]

\* the variant with the recovery loop
createWindowRetry(s, c) ==
    IF ~hasById(s, c.winId) THEN frameCreate(s, c)
    ELSE [s |-> s, c |-> [c EXCEPT !.isNew = FALSE]]

showWindowRetry(s, c, retryCount, focusedWindow) ==
    IF isDestroyed(s, c.winId, focusedWindow)
    THEN IF retryCount >= MaxRetries
         THEN [s |-> s, c |-> [c EXCEPT !.pc = "done", !.retryCount = retryCount]]
         ELSE [s |-> deleteById(deleteByName(s, <<"window">> \o c.winId), c.winId),
               c |-> [c EXCEPT !.pc = "delay", !.retryCount = retryCount,
                               !.recoveries = @ + 1]]
    ELSE LET win == getTargetWindow(s, c.winId, focusedWindow)
         IN  [s |-> IF c.isNew
                    THEN once(s, win, [kind |-> "show", winId |-> c.winId])
                    ELSE show(s, win, c.winId),
              c |-> [c EXCEPT !.pc = "done", !.retryCount = retryCount,
                              !.allFailed = FALSE]]

\* A pass that catches the frame's error and goes on to showWindow.
creatorPassCatching(s, c, retryCount, focusedWindow) ==
    LET r == IF c.variant = "retry" THEN createWindowRetry(s, c)
             ELSE createWindowCurrent(s, c)
        c1 == [r.c EXCEPT !.pc = c.pc]
    IN  IF c.variant = "retry"
        THEN showWindowRetry(r.s, c1, retryCount, focusedWindow)
        ELSE showWindowCurrent(r.s, c1, focusedWindow)

\* createWindow followed by showWindow; an error raised by the frame ends the
\* pass (createAndShow rethrows it, the delayed callback rejects).
creatorPass(s, c, retryCount, focusedWindow) ==
    LET r == IF c.variant = "retry" THEN createWindowRetry(s, c)
             ELSE createWindowCurrent(s, c)
    IN  IF r.c.pc = "threw" THEN r
        ELSE IF c.variant = "retry"
        THEN showWindowRetry(r.s, r.c, retryCount, focusedWindow)
        ELSE showWindowCurrent(r.s, r.c, focusedWindow)

(***************************************************************************)
(* WindowBridge                                                            *)
(***************************************************************************)
Bridge ==
    [dataStore |-> dataStore, windowPorts |-> windowPorts, ports |-> ports,
     emitted |-> emitted, calls |-> calls, sendFailed |-> sendFailed,
     messageHandlers |-> messageHandlers, localListeners |-> localListeners,
     now |-> now]

SetBridge(b) ==
    /\ dataStore' = b.dataStore
    /\ windowPorts' = b.windowPorts
    /\ ports' = b.ports
    /\ emitted' = b.emitted
    /\ calls' = b.calls
    /\ sendFailed' = b.sendFailed
    /\ messageHandlers' = b.messageHandlers
    /\ localListeners' = b.localListeners

\* FieldPermission {readonly, allowedWindows?}; present is false for a
\* DataStoreItem without permission, hasAllowed for a missing allowedWindows.
Permission(readonly, hasAllowed, allowedWindows) ==
    [present |-> TRUE, readonly |-> readonly, hasAllowed |-> hasAllowed,
     allowedWindows |-> allowedWindows]

NoPermission ==
    [present |-> FALSE, readonly |-> FALSE, hasAllowed |-> FALSE,
     allowedWindows |-> {}]

\* what dataStore.get(key) is read as when the key is missing
NoItem == [value |-> Undefined, permission |-> NoPermission]

getItem(b, key) == MapGet(b.dataStore, key, NoItem)

getData(b, key) ==
    IF key # Undefined THEN getItem(b, key).value
    ELSE [k \in DOMAIN b.dataStore |-> b.dataStore[k].value]

\* A readonly test that an allow-list switches off.
readonlyRejectedUnlessListed(item) ==
    item.permission.present /\ item.permission.readonly
                            /\ ~item.permission.hasAllowed

\* item?.permission?.readonly
readonlyRejected(item) == item.permission.present /\ item.permission.readonly

\* An allow-list test without the bypass for a missing origin.
windowRejectedAlways(item, windowId) ==
    /\ item.permission.present /\ item.permission.hasAllowed
    /\ windowId \notin item.permission.allowedWindows

\* item?.permission?.allowedWindows && windowId
\*   && !item.permission.allowedWindows.includes(windowId)
windowRejected(item, windowId) ==
    /\ item.permission.present /\ item.permission.hasAllowed
    /\ windowId # Undefined
    /\ windowId \notin item.permission.allowedWindows

\* JSON.stringify(event): the properties in insertion order, those whose
\* value is undefined left out.
EventProperties == <<"type", "key", "value", "oldValue", "windowId", "timestamp">>

JSONstringify(event) ==
    LET Defined(p) == p \in DOMAIN event /\ event[p] # Undefined
    IN  [k \in 1..Len(SelectSeq(EventProperties, Defined)) |->
            <<SelectSeq(EventProperties, Defined)[k],
              event[SelectSeq(EventProperties, Defined)[k]]>>]

\* port.postMessage(message) on the k-th and the later entries of windowPorts;
\* failing: the ports whose postMessage throws, which is caught and logged.
RECURSIVE postFrom(_, _, _, _)
postFrom(b, k, message, failing) ==
    IF k > Len(b.windowPorts) THEN b
    ELSE LET port == b.windowPorts[k].port
             b1 == IF port \in failing
                   THEN [b EXCEPT !.sendFailed = @ \cup {<<port, b.calls>>}]
                   ELSE [b EXCEPT !.ports[port].posted =
                            Append(@, [call |-> b.calls, message |-> message])]
         IN  postFrom(b1, k + 1, message, failing)

\* A broadcast that a throwing postMessage aborts.
RECURSIVE postUntilThrow(_, _, _, _)
postUntilThrow(b, k, message, failing) ==
    IF k > Len(b.windowPorts) THEN b
    ELSE LET port == b.windowPorts[k].port
         IN  IF port \in failing
             THEN [b EXCEPT !.sendFailed = @ \cup {<<port, b.calls>>}]
             ELSE postUntilThrow(
                      [b EXCEPT !.ports[port].posted =
                          Append(@, [call |-> b.calls, message |-> message])],
                      k + 1, message, failing)

broadcastChangeUncaught(b, event, failing) ==
    postUntilThrow(b, 1, JSONstringify(event), failing)

broadcastChange(b, event, failing) ==
    postFrom(b, 1, JSONstringify(event), failing)

\* What the callback of a WindowBridgeHandler does with an event: it notes
\* it; a "setter" answers a 'set' of another value by writing Echo to the
\* key, a "deleter" answers a 'set' by deleting the key.
HandlerKinds == {"observer", "setter", "deleter"}
Echo == <<"echo">>

RECURSIVE setData(_, _, _, _, _, _)
RECURSIVE deleteData(_, _, _, _, _)

\* handler.callback(event) of listener k; call is the number of the store
\* mutation the event reports.  No postMessage throws in a write made from
\* inside a callback.
handlerCallback(b, k, name, event, call) ==
    LET kind == b.localListeners[k].kind
        b1 == [b EXCEPT !.localListeners[k].seen = Append(@, call)]
    IN  IF kind = "setter" /\ event.type = <<"set">> /\ event.value # Echo
        THEN setData(b1, event.key, Echo, Undefined, name, {}).b
        ELSE IF kind = "deleter" /\ event.type = <<"set">>
        THEN deleteData(b1, event.key, Undefined, name, {}).b
        ELSE b1

\* the listeners of name from the k-th on are called one after the other,
\* each returning before the next is called
RECURSIVE callListeners(_, _, _, _, _)
callListeners(b, k, name, event, call) ==
    IF k > Len(b.localListeners) THEN b
    ELSE callListeners(IF b.localListeners[k].eventName = name
                       THEN handlerCallback(b, k, name, event, call)
                       ELSE b,
                       k + 1, name, event, call)

\* EventEmitter.emit(name, event)
emit(b, name, event) ==
    callListeners(
        [b EXCEPT !.emitted = Append(@, [name |-> name, call |-> b.calls,
                                         type |-> event.type, key |-> event.key])],
        1, name, event, b.calls)

\* registerHandler(handler): this.on(handler.eventName, handler.callback)
registerHandler(b, eventName, kind) ==
    [b EXCEPT !.localListeners = Append(@, [eventName |-> eventName, kind |-> kind,
                                       seen |-> <<>>])]

Result(success, error) == [success |-> success, error |-> error]

\* A setData that announces the attempt before it checks the permission.
setDataAnnounced(b, key, value, windowId, eventName, failing) ==
    LET item == getItem(b, key)
        event == [type |-> <<"set">>, key |-> key, value |-> value,
                  oldValue |-> item.value, windowId |-> windowId,
                  timestamp |-> <<ToString(b.now)>>]
        b0 == emit(b, IF eventName # Undefined THEN eventName
                      ELSE DefaultEventName, event)
    IN  IF readonlyRejected(item)
        THEN [b |-> b0,
              res |-> Result(FALSE, <<"Field">> \o key \o <<"is readonly">>)]
        ELSE IF windowRejected(item, windowId)
        THEN [b |-> b0,
              res |-> Result(FALSE, <<"Window">> \o windowId
                                    \o <<"is not allowed to modify">> \o key)]
        ELSE [b |-> broadcastChange(
                        [b0 EXCEPT !.dataStore =
                            MapSet(@, key, [value |-> value,
                                            permission |-> item.permission]),
                                   !.calls = @ + 1], event, failing),
              res |-> Result(TRUE, Undefined)]

\* A setData that stores the value without the item's permission.
setDataBare(b, key, value, windowId, eventName, failing) ==
    LET item == getItem(b, key)
    IN  IF readonlyRejected(item)
        THEN [b |-> b,
              res |-> Result(FALSE, <<"Field">> \o key \o <<"is readonly">>)]
        ELSE IF windowRejected(item, windowId)
        THEN [b |-> b,
              res |-> Result(FALSE, <<"Window">> \o windowId
                                    \o <<"is not allowed to modify">> \o key)]
        ELSE LET b1 == [b EXCEPT !.dataStore =
                           MapSet(@, key, [value |-> value,
                                           permission |-> NoPermission]),
                                 !.calls = @ + 1]
                 event == [type |-> <<"set">>, key |-> key, value |-> value,
                           oldValue |-> item.value, windowId |-> windowId,
                           timestamp |-> <<ToString(b.now)>>]
             IN  [b |-> emit(broadcastChange(b1, event, failing),
                             IF eventName # Undefined THEN eventName
                             ELSE DefaultEventName, event),
                  res |-> Result(TRUE, Undefined)]

\* A setData that stores the value and leaves the broadcast for later.
setDataUnsent(b, key, value, windowId, eventName, failing) ==
    LET item == getItem(b, key)
    IN  IF readonlyRejected(item)
        THEN [b |-> b,
              res |-> Result(FALSE, <<"Field">> \o key \o <<"is readonly">>)]
        ELSE IF windowRejected(item, windowId)
        THEN [b |-> b,
              res |-> Result(FALSE, <<"Window">> \o windowId
                                    \o <<"is not allowed to modify">> \o key)]
        ELSE [b |-> [b EXCEPT !.dataStore =
                        MapSet(@, key, [value |-> value,
                                        permission |-> item.permission]),
                              !.calls = @ + 1],
              res |-> Result(TRUE, Undefined)]

setData(b, key, value, windowId, eventName, failing) ==
    LET item == getItem(b, key)
    IN  IF readonlyRejected(item)
        THEN [b |-> b,
              res |-> Result(FALSE, <<"Field">> \o key \o <<"is readonly">>)]
        ELSE IF windowRejected(item, windowId)
        THEN [b |-> b,
              res |-> Result(FALSE, <<"Window">> \o windowId
                                    \o <<"is not allowed to modify">> \o key)]
        ELSE LET oldValue == item.value
                 b1 == [b EXCEPT !.dataStore =
                           MapSet(@, key, [value |-> value,
                                           permission |-> item.permission]),
                                 !.calls = @ + 1]
                 event == [type |-> <<"set">>, key |-> key, value |-> value,
                           oldValue |-> oldValue, windowId |-> windowId,
                           timestamp |-> <<ToString(b.now)>>]
                 b2 == broadcastChange(b1, event, failing)
             IN  [b |-> emit(b2, IF eventName # Undefined THEN eventName
                                 ELSE DefaultEventName, event),
                  res |-> Result(TRUE, Undefined)]

\* A deleteData that checks readonly only.
deleteDataAnyWindow(b, key, windowId, eventName, failing) ==
    LET item == getItem(b, key)
    IN  IF readonlyRejected(item)
        THEN [b |-> b,
              res |-> Result(FALSE, <<"Field">> \o key \o <<"is readonly">>)]
        ELSE LET b1 == [b EXCEPT !.dataStore = MapDelete(@, key),
                                 !.calls = @ + 1]
                 event == [type |-> <<"delete">>, key |-> key,
                           oldValue |-> item.value, windowId |-> windowId,
                           timestamp |-> <<ToString(b.now)>>]
             IN  [b |-> emit(broadcastChange(b1, event, failing),
                             IF eventName # Undefined THEN eventName
                             ELSE DefaultEventName, event),
                  res |-> Result(TRUE, Undefined)]

deleteData(b, key, windowId, eventName, failing) ==
    LET item == getItem(b, key)
    IN  IF readonlyRejected(item)
        THEN [b |-> b,
              res |-> Result(FALSE, <<"Field">> \o key \o <<"is readonly">>)]
        ELSE IF windowRejected(item, windowId)
        THEN [b |-> b,
              res |-> Result(FALSE, <<"Window">> \o windowId
                                    \o <<"is not allowed to delete">> \o key)]
        ELSE LET oldValue == item.value
                 b1 == [b EXCEPT !.dataStore = MapDelete(@, key),
                                 !.calls = @ + 1]
                 event == [type |-> <<"delete">>, key |-> key,
                           oldValue |-> oldValue, windowId |-> windowId,
                           timestamp |-> <<ToString(b.now)>>]
                 b2 == broadcastChange(b1, event, failing)
             IN  [b |-> emit(b2, IF eventName # Undefined THEN eventName
                                 ELSE DefaultEventName, event),
                  res |-> Result(TRUE, Undefined)]

\* A setFieldPermission that replaces the whole item.
setFieldPermissionReset(b, key, permission) ==
    [b EXCEPT !.dataStore =
        MapSet(@, key, [value |-> Undefined, permission |-> permission])]

\* A setFieldPermission that leaves a readonly key as it is.
setFieldPermissionGuarded(b, key, permission) ==
    IF key \in DOMAIN b.dataStore /\ b.dataStore[key].permission.present
                                 /\ b.dataStore[key].permission.readonly
    THEN b
    ELSE IF key \in DOMAIN b.dataStore
    THEN [b EXCEPT !.dataStore[key].permission = permission]
    ELSE [b EXCEPT !.dataStore =
             MapSet(@, key, [value |-> Undefined, permission |-> permission])]

setFieldPermission(b, key, permission) ==
    IF key \in DOMAIN b.dataStore
    THEN [b EXCEPT !.dataStore[key].permission = permission]
    ELSE [b EXCEPT !.dataStore =
             MapSet(@, key, [value |-> Undefined, permission |-> permission])]

\* windowPorts.get(windowId): the position of the entry, 0 when there is none
portIndex(b, windowId) ==
    LET found == {k \in 1..Len(b.windowPorts) :
                     b.windowPorts[k].windowId = windowId}
    IN  IF found = {} THEN 0 ELSE CHOOSE k \in found : TRUE

\* An unregistration that drops the entry without closing the port.
unregisterWindowPortNoClose(b, windowId, closeThrows) ==
    LET k == portIndex(b, windowId)
    IN  IF k = 0 THEN b
        ELSE [b EXCEPT !.windowPorts =
                           SubSeq(@, 1, k - 1) \o SubSeq(@, k + 1, Len(@))]

\* An unregistration that a throwing close() aborts.
unregisterWindowPortUncaught(b, windowId, closeThrows) ==
    LET k == portIndex(b, windowId)
    IN  IF k = 0 THEN b
        ELSE IF closeThrows
        THEN [b EXCEPT !.ports[b.windowPorts[k].port].closes = @ + 1]
        ELSE [b EXCEPT !.ports[b.windowPorts[k].port].closes = @ + 1,
                       !.windowPorts =
                           SubSeq(@, 1, k - 1) \o SubSeq(@, k + 1, Len(@))]

\* closeThrows: port.close() raises, which is caught and logged
unregisterWindowPort(b, windowId, closeThrows) ==
    LET k == portIndex(b, windowId)
    IN  IF k = 0 THEN b
        ELSE [b EXCEPT !.ports[b.windowPorts[k].port].closes = @ + 1,
                       !.windowPorts =
                           SubSeq(@, 1, k - 1) \o SubSeq(@, k + 1, Len(@))]

\* injectPort: window.webContents.postMessage('window-bridge-port', null,
\* [port2]); postThrows: it raises, which is caught and logged
injectPort(b, port, postThrows) ==
    [b EXCEPT !.ports[port].remote =
        IF postThrows THEN "failed" ELSE "transferred"]

\* isLoading: window.webContents.isLoading()
registerWindowPort(b, windowId, isLoading, closeThrows, postThrows) ==
    LET b1 == unregisterWindowPort(b, windowId, closeThrows)
        port1 == Len(b1.ports) + 1
        b2 == [b1 EXCEPT
                 !.ports = Append(@, [windowId |-> windowId, closes |-> 0,
                                      posted |-> <<>>, remote |-> "waiting",
                                      since |-> b1.calls]),
                 !.windowPorts = Append(@, [windowId |-> windowId,
                                            port |-> port1])]
    IN  IF isLoading THEN b2 ELSE injectPort(b2, port1, postThrows)

\* registerMessageHandler({name, callback}); the callbacks are those of the
\* default handlers, named after them.
registerMessageHandler(b, name, callback) ==
    [b EXCEPT !.messageHandlers = MapSet(@, name, callback)]

\* registerDefaultHandlers
DefaultHandlers ==
    [name \in {<<"get">>, <<"set">>, <<"delete">>, <<"set-permission">>} |-> name]

\* the data of a message; present is false for handleMessage(name, undefined)
MessageData(key, value, windowId, permission) ==
    [present |-> TRUE, key |-> key, value |-> value, windowId |-> windowId,
     eventName |-> Undefined, permission |-> permission]

NoData ==
    [present |-> FALSE, key |-> Undefined, value |-> Undefined,
     windowId |-> Undefined, eventName |-> Undefined, permission |-> NoPermission]

\* what handleMessage returns: isNull for null, threw when it raised
Returned(b, res) == [b |-> b, res |-> res, isNull |-> FALSE, threw |-> FALSE]

Null(b) == [b |-> b, res |-> Undefined, isNull |-> TRUE, threw |-> FALSE]

Threw(b) == [b |-> b, res |-> Undefined, isNull |-> FALSE, threw |-> TRUE]

\* handler.callback(this, data): 'get' defaults a missing data to {}, the
\* other callbacks destructure it and raise a TypeError when it is missing.
callback(handler, b, data, failing) ==
    IF handler = <<"get">> THEN Returned(b, getData(b, data.key))
    ELSE IF ~data.present THEN Threw(b)
    ELSE IF handler = <<"set">>
    THEN LET r == setData(b, data.key, data.value, data.windowId,
                          data.eventName, failing)
         IN  Returned(r.b, r.res)
    ELSE IF handler = <<"delete">>
    THEN LET r == deleteData(b, data.key, data.windowId, data.eventName, failing)
         IN  Returned(r.b, r.res)
    ELSE Returned(setFieldPermission(b, data.key, data.permission), Undefined)

\* A handleMessage that raises for a name without a handler.
handleMessageStrict(b, name, data, failing) ==
    IF name \in DOMAIN b.messageHandlers
    THEN callback(b.messageHandlers[name], b, data, failing)
    ELSE Threw(b)

handleMessage(b, name, data, failing) ==
    IF name \in DOMAIN b.messageHandlers
    THEN callback(b.messageHandlers[name], b, data, failing)
    ELSE Null(b)

(***************************************************************************)
(* Initial state: an empty registry, no window constructed, an empty       *)
(* store, no channel.                                                      *)
(***************************************************************************)
NoCall == [op |-> "none", id |-> Undefined, res |-> Undefined,
           window |-> NoWindow, focusedWindow |-> NoWindow]

InitStore ==
    /\ windows = EmptyMap
    /\ windowNames = EmptyMap
    /\ windowIds = EmptyMap
    /\ windowInstanceIds = EmptyMap
    /\ mainWindow = NoWindow
    /\ hostWindows = {}
    /\ destroyed = {}
    /\ now = 0
    /\ uuids = 0
    /\ readyListeners = EmptyMap
    /\ readyFired = {}
    /\ shown = EmptyMap
    /\ ready = FALSE

InitBridge ==
    /\ dataStore = EmptyMap
    /\ windowPorts = <<>>
    /\ ports = <<>>
    /\ emitted = <<>>
    /\ calls = 0
    /\ sendFailed = {}
    /\ messageHandlers = DefaultHandlers
    /\ localListeners = <<>>

Init ==
    /\ InitStore
    /\ creator = NoCreator
    /\ InitBridge
    /\ last = NoCall

(***************************************************************************)
(* Calls on the registry.                                                  *)
(***************************************************************************)
\* A caller constructs a BrowserWindow and registers it:
\* store.createWindow(new BrowserWindow(...), {name, windowId}).
CreateWindow(name, windowId) ==
    LET window == NewWindow(Store)
        r == createWindow(construct(Store), window,
                          [name |-> name, windowId |-> windowId])
    IN  /\ WithinBounds(r.s)
        /\ SetStore(r.s)
        /\ last' = [NoCall EXCEPT !.op = "createWindow", !.id = windowId,
                                   !.res = r.res, !.window = window]
        /\ UNCHANGED <<creator, bridgeVars>>

RemoveWindow(windowId, closeThrows) ==
    /\ SetStore(removeWindow(Store, windowId, closeThrows))
    /\ last' = [NoCall EXCEPT !.op = "removeWindow", !.id = windowId,
                               !.window = getWindowById(Store, windowId)]
    /\ UNCHANGED <<creator, bridgeVars>>

\* deleteById(windowId), called on the registry directly
DeleteById(windowId) ==
    /\ SetStore(deleteById(Store, windowId))
    /\ last' = [op |-> "deleteById", id |-> windowId,
                window |-> getWindowById(Store, windowId)]
    /\ UNCHANGED <<creator, bridgeVars>>

\* deleteByName(proposedName), called on the registry directly
DeleteByName(proposedName) ==
    /\ SetStore(deleteByName(Store, proposedName))
    /\ last' = [op |-> "deleteByName", name |-> proposedName,
                id |-> getWindowByNameId(Store, proposedName)]
    /\ UNCHANGED <<creator, bridgeVars>>

\* updateWindowName(windowId, newName); currentName is the name of the id at
\* the call, holder the id that newName maps to at the call.
UpdateWindowName(windowId, newName) ==
    /\ SetStore(updateWindowName(Store, windowId, newName))
    /\ last' = [op |-> "updateWindowName", id |-> windowId, name |-> newName,
                currentName |-> getNameByWindowId(Store, windowId),
                holder |-> getWindowByNameId(Store, newName)]
    /\ UNCHANGED <<creator, bridgeVars>>

\* getTargetWindow(windowId); BrowserWindow.getFocusedWindow() is asked only
\* when no windowId is given.
GetTargetWindow(windowId, focusedWindow) ==
    /\ focusedWindow \in hostWindows \cup {NoWindow}
    /\ windowId # Undefined => focusedWindow = NoWindow
    /\ last' = [NoCall EXCEPT !.op = "getTargetWindow", !.id = windowId,
                               !.focusedWindow = focusedWindow,
                               !.window = getTargetWindow(Store, windowId,
                                                          focusedWindow)]
    /\ UNCHANGED <<storeVars, hostVars, creator, bridgeVars>>

\* winClose(windowId); target is what getTargetWindow(windowId) answers at
\* the call, window the handle registered under the id.
WinClose(windowId, closeThrows) ==
    LET r == winClose(Store, windowId, closeThrows)
    IN  /\ SetStore(r.s)
        /\ last' = [op |-> "winClose", id |-> windowId,
                    window |-> getWindowById(Store, windowId),
                    target |-> getTargetWindow(Store, windowId, NoWindow),
                    invoked |-> r.invoked, quits |-> r.quits, raised |-> FALSE]
        /\ UNCHANGED <<creator, bridgeVars>>

WindowOperations ==
    {"minimize", "restore", "maximize", "unmaximize", "fullScreen", "focus"}

\* one of the window operations; BrowserWindow.getFocusedWindow() is asked
\* only when no windowId is given.
WindowOperation(op, windowId, focusedWindow) ==
    /\ focusedWindow \in hostWindows \cup {NoWindow}
    /\ windowId # Undefined => focusedWindow = NoWindow
    /\ LET r == windowOperation(Store, op, windowId, focusedWindow)
       IN  last' = [op |-> op, id |-> windowId,
                    target |-> getTargetWindow(Store, windowId, focusedWindow),
                    invoked |-> r.invoked, raised |-> r.raised]
    /\ UNCHANGED <<storeVars, hostVars, creator, bridgeVars>>

\* WindowManager.create(config)
ManagerCreateWithin(name, windowId, maxHandles, maxUuid) ==
    LET r == managerCreate(Store, [name |-> name, windowId |-> windowId])
    IN  /\ WithinBoundsOf(r.s, maxHandles, maxUuid)
        /\ SetStore(r.s)
        /\ last' = [NoCall EXCEPT !.op = "create", !.id = windowId,
                                   !.res = r.res,
                                   !.window = IF r.s.hostWindows = hostWindows
                                              THEN NoWindow ELSE NewWindow(Store)]
        /\ UNCHANGED <<creator, bridgeVars>>

(***************************************************************************)
(* WindowCreator.createAndShow and its delayed retry.                      *)
(***************************************************************************)
ManagerCreate(name, windowId) ==
    ManagerCreateWithin(name, windowId, MaxHandles, MaxUuid)

CreateAndShowWithin(variant, winId, name, focusedWindow, maxHandles, maxUuid) ==
    /\ creator.pc = "none"
    /\ focusedWindow \in hostWindows \cup {NoWindow}
    /\ LET c == [NoCreator EXCEPT
                   !.variant = variant, !.winId = winId, !.name = name,
                   !.supplied = winId,
                   !.stale = /\ hasById(Store, winId)
                             /\ getWindowById(Store, winId) \in destroyed]
           r == creatorPass(Store, c, 0, focusedWindow)
       IN  /\ WithinBoundsOf(r.s, maxHandles, maxUuid)
           /\ SetStore(r.s)
           /\ creator' = [r.c EXCEPT !.firstIsNew = r.c.isNew,
                                     !.returned = r.c.winId]
           /\ last' = [NoCall EXCEPT !.op = "createAndShow", !.id = winId,
                                      !.res = IF r.c.pc = "threw" THEN CapacityError
                                              ELSE r.c.winId]
           /\ UNCHANGED bridgeVars

CreateAndShow(variant, winId, name, focusedWindow) ==
    CreateAndShowWithin(variant, winId, name, focusedWindow, MaxHandles, MaxUuid)

\* createAndShow on another WindowCreator instance (the variant with the
\* recovery loop), for those of its invocations that end in the call: the
\* pass shows the window, puts the show on 'ready-to-show', or throws.
CreateAndShowOther(winId, name, focusedWindow) ==
    /\ focusedWindow \in hostWindows \cup {NoWindow}
    /\ \A w \in DOMAIN shown : shown[w] < MaxShows
    /\ \E r \in {creatorPass(Store,
                              [NoCreator EXCEPT !.variant = "retry",
                                                !.winId = winId, !.name = name,
                                                !.supplied = winId],
                              0, focusedWindow)} :
          /\ r.c.pc \in {"done", "threw"}
          /\ WithinBounds(r.s)
          /\ SetStore(r.s)
          /\ last' = [op |-> "createAndShowOther", id |-> winId,
                      res |-> IF r.c.pc = "threw" THEN CapacityError
                              ELSE r.c.winId,
                      isNew |-> r.c.isNew]
          /\ UNCHANGED <<creator, bridgeVars>>

\* delay(500) has elapsed: createWindow, then showWindow with retryCount + 1
DelayElapsedWithin(focusedWindow, maxHandles, maxUuid) ==
    /\ creator.pc = "delay"
    /\ focusedWindow \in hostWindows \cup {NoWindow}
    /\ LET r == creatorPass(Store, creator, creator.retryCount + 1, focusedWindow)
       IN  /\ WithinBoundsOf(r.s, maxHandles, maxUuid)
           /\ SetStore(r.s)
           /\ creator' = r.c
           /\ last' = [NoCall EXCEPT !.op = "retry", !.id = creator.winId,
                                      !.res = r.c.winId]
           /\ UNCHANGED bridgeVars

DelayElapsed(focusedWindow) ==
    DelayElapsedWithin(focusedWindow, MaxHandles, MaxUuid)

(***************************************************************************)
(* Calls on the bridge.                                                    *)
(***************************************************************************)
regVars == <<storeVars, hostVars, creator>>

RegisteredPorts == {windowPorts[k].port : k \in 1..Len(windowPorts)}

BridgeCall(op, key, value, windowId, res) ==
    [op |-> op, key |-> key, value |-> value, windowId |-> windowId, res |-> res]

SetData(key, value, windowId, eventName, failing) ==
    /\ failing \subseteq RegisteredPorts
    /\ LET r == setData(Bridge, key, value, windowId, eventName, failing)
       IN  /\ r.b.calls <= MaxCalls
           /\ SetBridge(r.b)
           /\ last' = BridgeCall("setData", key, value, windowId, r.res)
    /\ UNCHANGED regVars

DeleteData(key, windowId, eventName, failing) ==
    /\ failing \subseteq RegisteredPorts
    /\ LET r == deleteData(Bridge, key, windowId, eventName, failing)
       IN  /\ r.b.calls <= MaxCalls
           /\ SetBridge(r.b)
           /\ last' = BridgeCall("deleteData", key, Undefined, windowId, r.res)
    /\ UNCHANGED regVars

RegisterHandler(eventName, kind) ==
    /\ Len(localListeners) < MaxListeners
    /\ SetBridge(registerHandler(Bridge, eventName, kind))
    /\ last' = [op |-> "registerHandler", eventName |-> eventName, kind |-> kind]
    /\ UNCHANGED regVars

SetFieldPermission(key, permission) ==
    /\ SetBridge(setFieldPermission(Bridge, key, permission))
    /\ last' = BridgeCall("setFieldPermission", key, Undefined, Undefined,
                          Result(TRUE, Undefined))
                @@ [permission |-> permission]
    /\ UNCHANGED regVars

\* setFieldPermission(key, permission), the permission it replaces noted
SetFieldPermissionOver(key, permission) ==
    /\ SetBridge(setFieldPermission(Bridge, key, permission))
    /\ last' = BridgeCall("setFieldPermission", key, Undefined, Undefined,
                          Result(TRUE, Undefined))
                @@ [permission |-> permission,
                    previous |-> getItem(Bridge, key).permission]
    /\ UNCHANGED regVars

RegisterWindowPort(windowId, isLoading, closeThrows, postThrows) ==
    /\ Len(ports) < MaxPorts
    /\ SetBridge(registerWindowPort(Bridge, windowId, isLoading, closeThrows,
                                    postThrows))
    /\ last' = BridgeCall("registerWindowPort", Undefined, Undefined, windowId,
                          Result(TRUE, Undefined))
    /\ UNCHANGED regVars

UnregisterWindowPort(windowId, closeThrows) ==
    /\ SetBridge(unregisterWindowPort(Bridge, windowId, closeThrows))
    /\ last' = BridgeCall("unregisterWindowPort", Undefined, Undefined,
                          windowId, Result(TRUE, Undefined))
                @@ [closeThrows |-> closeThrows]
    /\ UNCHANGED regVars

RegisterMessageHandler(name, handler) ==
    /\ SetBridge(registerMessageHandler(Bridge, name, handler))
    /\ last' = [op |-> "registerMessageHandler", name |-> name]
    /\ UNCHANGED regVars

\* handleMessage(name, data), as the 'window-bridge-invoke' listener calls it
HandleMessage(name, data, failing) ==
    /\ failing \subseteq RegisteredPorts
    /\ LET r == handleMessage(Bridge, name, data, failing)
       IN  /\ r.b.calls <= MaxCalls
           /\ SetBridge(r.b)
           /\ last' = [op |-> "handleMessage", name |-> name, data |-> data,
                       res |-> r.res, isNull |-> r.isNull, threw |-> r.threw]
    /\ UNCHANGED regVars

\* 'did-finish-load' fires on the window: the listeners that
\* registerWindowPort left on it inject their port2.
DidFinishLoad(windowId, postThrows) ==
    /\ \E p \in 1..Len(ports) :
          ports[p].windowId = windowId /\ ports[p].remote = "waiting"
    /\ ports' = [p \in 1..Len(ports) |->
                    IF ports[p].windowId = windowId /\ ports[p].remote = "waiting"
                    THEN injectPort(Bridge, p, postThrows).ports[p]
                    ELSE ports[p]]
    /\ last' = NoCall
    /\ UNCHANGED <<regVars, dataStore, windowPorts, emitted, calls, sendFailed,
                   messageHandlers, localListeners>>

(***************************************************************************)
(* The host.                                                               *)
(***************************************************************************)
\* The user or the operating system closes a window behind the registry.
HostDestroy(window) ==
    /\ window \in hostWindows \ destroyed
    /\ destroyed' = destroyed \cup {window}
    /\ last' = NoCall
    /\ UNCHANGED <<storeVars, hostWindows, now, uuids, readyListeners,
                   readyFired, shown, ready, creator, bridgeVars>>

RECURSIVE runListeners(_, _, _)
runListeners(s, window, listeners) ==
    IF listeners = <<>> THEN s
    ELSE LET l == Head(listeners)
             s1 == IF l.kind = "show" THEN show(s, window, l.winId)
                   ELSE readyToShow(s, window)
         IN  runListeners(s1, window, Tail(listeners))

\* 'ready-to-show' fires on a window: its one-shot listeners run in the order
\* they were added.
ReadyToShow(window) ==
    /\ window \in hostWindows \ (destroyed \cup readyFired)
    /\ LET s1 == [Store EXCEPT !.readyFired = @ \cup {window},
                               !.readyListeners = MapSet(@, window, <<>>)]
       IN  SetStore(runListeners(s1, window, readyListeners[window]))
    /\ last' = NoCall
    /\ UNCHANGED <<creator, bridgeVars>>

Tick ==
    /\ now < MaxTime
    /\ now' = now + 1
    /\ last' = NoCall
    /\ UNCHANGED <<storeVars, hostWindows, destroyed, uuids, readyListeners,
                   readyFired, shown, ready, creator, bridgeVars>>

AllIds == SuppliedIds \cup {Uuid(n) : n \in 1..MaxUuid}
\* the ids and names the WindowCreator runs use
CreatorIds == SuppliedIds
CreatorNames == {<<"a">>}

(***************************************************************************)
(* The registry used directly.                                             *)
(***************************************************************************)
Next ==
    \/ \E name \in SuppliedNames \cup {Undefined},
          windowId \in SuppliedIds \cup {Undefined} : CreateWindow(name, windowId)
    \/ \E windowId \in AllIds, closeThrows \in BOOLEAN :
          RemoveWindow(windowId, closeThrows)
    \/ \E windowId \in SuppliedIds \cup SuppliedNames \cup {Undefined},
          focusedWindow \in Handles \cup {NoWindow} :
          GetTargetWindow(windowId, focusedWindow)
    \/ \E window \in Handles : HostDestroy(window)
    \/ Tick

Spec == Init /\ [][Next]_vars

(***************************************************************************)
(* Renaming the records of the registry.                                   *)
(***************************************************************************)
\* a name that createWindow also hands out, and one that only a rename gives
NewNames == {<<"a">>, <<"b">>}

NextNames ==
    \/ \E name \in SuppliedNames \cup {Undefined},
          windowId \in SuppliedIds \cup {Undefined} : CreateWindow(name, windowId)
    \/ \E windowId \in AllIds, newName \in NewNames :
          UpdateWindowName(windowId, newName)
    \/ \E windowId \in AllIds : RemoveWindow(windowId, FALSE)

SpecNames == Init /\ [][NextNames]_vars

(***************************************************************************)
(* The registry used through all its public operations.                    *)
(***************************************************************************)
\* the default name of the supplied id, and the name a rename gives
IndexNames == {<<"window", "x">>, <<"b">>}

NextIndices ==
    \/ \E windowId \in SuppliedIds \cup {Undefined} :
          CreateWindow(Undefined, windowId)
    \/ \E windowId \in AllIds : RemoveWindow(windowId, FALSE)
    \/ \E windowId \in AllIds : UpdateWindowName(windowId, <<"b">>)
    \/ \E windowId \in AllIds : DeleteById(windowId)
    \/ \E proposedName \in IndexNames : DeleteByName(proposedName)
    \/ \E window \in Handles : HostDestroy(window)

SpecIndices == Init /\ [][NextIndices]_vars

(***************************************************************************)
(* The window operations on the registry.                                  *)
(***************************************************************************)
NextEvents ==
    \/ \E name \in SuppliedNames \cup {Undefined},
          windowId \in SuppliedIds \cup {Undefined} : CreateWindow(name, windowId)
    \/ \E windowId \in AllIds \cup SuppliedNames, closeThrows \in BOOLEAN :
          WinClose(windowId, closeThrows)
    \/ \E op \in WindowOperations,
          windowId \in SuppliedIds \cup SuppliedNames \cup {Undefined},
          focusedWindow \in Handles \cup {NoWindow} :
          WindowOperation(op, windowId, focusedWindow)
    \/ \E window \in Handles : HostDestroy(window)

SpecEvents == Init /\ [][NextEvents]_vars

(***************************************************************************)
(* WindowCreator on top of WindowManager.                                  *)
(***************************************************************************)
NextCreator ==
    \/ \E name \in CreatorNames \cup {Undefined},
          windowId \in CreatorIds \cup {Undefined} : ManagerCreate(name, windowId)
    \/ \E variant \in Variants, winId \in CreatorIds \cup {Undefined},
          name \in CreatorNames \cup {Undefined},
          focusedWindow \in Handles \cup {NoWindow} :
          CreateAndShow(variant, winId, name, focusedWindow)
    \/ \E focusedWindow \in Handles \cup {NoWindow} : DelayElapsed(focusedWindow)
    \/ \E window \in Handles : HostDestroy(window)
    \/ \E window \in Handles : ReadyToShow(window)

SpecCreator == Init /\ [][NextCreator]_vars

\* Two WindowCreator instances for the same logical id: the invocation of
\* one runs between the passes of the other.
NextRace ==
    \/ \E winId \in CreatorIds : CreateAndShow("retry", winId, Undefined, NoWindow)
    \/ \E winId \in CreatorIds : CreateAndShowOther(winId, Undefined, NoWindow)
    \/ DelayElapsed(NoWindow)
    \/ \E window \in Handles : HostDestroy(window)
    \/ \E window \in Handles : ReadyToShow(window)

SpecRace == Init /\ [][NextRace]_vars

\* createAndShow on a registry that other callers of WindowManager.create
\* fill, before the invocation and while its retry is pending.
NextCapacity ==
    \/ \E windowId \in CreatorIds \cup {Undefined} :
          ManagerCreateWithin(Undefined, windowId, CapacityHandles, CapacityUuid)
    \/ \E variant \in Variants, winId \in CreatorIds \cup {Undefined} :
          CreateAndShowWithin(variant, winId, Undefined, NoWindow,
                              CapacityHandles, CapacityUuid)
    \/ DelayElapsedWithin(NoWindow, CapacityHandles, CapacityUuid)
    \/ \E window \in 1..CapacityHandles : HostDestroy(window)

SpecCapacity == Init /\ [][NextCapacity]_vars

\* The same calls, with fairness for the timer: delay(500) resolves, so a
\* scheduled retry is run.  An invocation constructs at most one window (a
\* pass that constructs one ends the invocation); WindowManager.create
\* leaves that window and its uuid within the bounds while an invocation may
\* still come or is under way.
ManagerCreateReserving(name, windowId) ==
    /\ creator.pc \in {"done", "threw"}
          \/ LET r == managerCreate(Store, [name |-> name, windowId |-> windowId])
             IN  /\ Cardinality(r.s.hostWindows) < MaxHandles
                 /\ r.s.uuids < MaxUuid
    /\ ManagerCreate(name, windowId)

NextCreatorFair ==
    \/ \E name \in CreatorNames \cup {Undefined},
          windowId \in CreatorIds \cup {Undefined} :
          ManagerCreateReserving(name, windowId)
    \/ \E variant \in Variants, winId \in CreatorIds \cup {Undefined},
          name \in CreatorNames \cup {Undefined},
          focusedWindow \in Handles \cup {NoWindow} :
          CreateAndShow(variant, winId, name, focusedWindow)
    \/ \E focusedWindow \in Handles \cup {NoWindow} : DelayElapsed(focusedWindow)
    \/ \E window \in Handles : HostDestroy(window)
    \/ \E window \in Handles : ReadyToShow(window)

SpecCreatorFair ==
    /\ Init /\ [][NextCreatorFair]_vars
    /\ WF_vars(\E focusedWindow \in Handles \cup {NoWindow} :
                   DelayElapsed(focusedWindow))

(***************************************************************************)
(* The bridge.                                                             *)
(***************************************************************************)
PermissionInputs ==
    {Permission(TRUE, FALSE, {}), Permission(FALSE, FALSE, {}),
     Permission(FALSE, TRUE, {<<"w1">>}), Permission(FALSE, TRUE, {}),
     Permission(TRUE, TRUE, {<<"w1">>})}

NextBridge ==
    \/ \E key \in Keys, value \in Values, windowId \in BridgeWindows \cup {Undefined},
          eventName \in EventNames \cup {Undefined} :
          SetData(key, value, windowId, eventName, {})
    \/ \E key \in Keys, windowId \in BridgeWindows \cup {Undefined},
          eventName \in EventNames \cup {Undefined} :
          DeleteData(key, windowId, eventName, {})
    \/ \E key \in Keys, permission \in PermissionInputs :
          SetFieldPermission(key, permission)

SpecBridge == Init /\ [][NextBridge]_vars

\* Local listeners and writes to one key under the default event name.
NextListeners ==
    \/ \E kind \in HandlerKinds : RegisterHandler(DefaultEventName, kind)
    \/ \E key \in Keys, value \in Values :
          SetData(key, value, Undefined, Undefined, {})
    \/ \E key \in Keys : DeleteData(key, Undefined, Undefined, {})

SpecListeners == Init /\ [][NextListeners]_vars

\* The channels: writes by any window to an unrestricted key.
ChannelKeys == {<<"k1">>}
ChannelValues == {<<"v1">>}
ChannelOrigins == {Undefined, <<"w1">>}

NextChannels ==
    \/ \E key \in ChannelKeys, value \in ChannelValues, windowId \in ChannelOrigins,
          failing \in SUBSET (1..MaxPorts) :
          SetData(key, value, windowId, Undefined, failing)
    \/ \E key \in ChannelKeys, windowId \in ChannelOrigins,
          failing \in SUBSET (1..MaxPorts) :
          DeleteData(key, windowId, Undefined, failing)
    \/ \E windowId \in BridgeWindows, isLoading, closeThrows, postThrows \in BOOLEAN :
          RegisterWindowPort(windowId, isLoading, closeThrows, postThrows)
    \/ \E windowId \in BridgeWindows, closeThrows \in BOOLEAN :
          UnregisterWindowPort(windowId, closeThrows)
    \/ \E windowId \in BridgeWindows, postThrows \in BOOLEAN :
          DidFinishLoad(windowId, postThrows)

SpecChannels == Init /\ [][NextChannels]_vars

\* Permissions and channels together: writes and deletes of one key by any
\* window, with channels whose postMessage does not throw.
NextGated ==
    \/ \E key \in ChannelKeys, value \in Values,
          windowId \in BridgeWindows \cup {Undefined} :
          SetData(key, value, windowId, Undefined, {})
    \/ \E key \in ChannelKeys, windowId \in BridgeWindows \cup {Undefined} :
          DeleteData(key, windowId, Undefined, {})
    \/ \E key \in ChannelKeys, permission \in PermissionInputs :
          SetFieldPermission(key, permission)
    \/ \E windowId \in BridgeWindows :
          RegisterWindowPort(windowId, FALSE, FALSE, FALSE)

SpecGated == Init /\ [][NextGated]_vars

\* Permissions set on two keys that are written with and without a channel
\* registered.
NextPermissions ==
    \/ \E key \in Keys, value \in ChannelValues :
          SetData(key, value, Undefined, Undefined, {})
    \/ \E key \in Keys, permission \in PermissionInputs :
          SetFieldPermission(key, permission)
    \/ \E windowId \in ChannelOrigins \ {Undefined} :
          RegisterWindowPort(windowId, FALSE, FALSE, FALSE)

SpecPermissions == Init /\ [][NextPermissions]_vars

\* The bridge used through handleMessage: the default handlers, one handler
\* registered later under a new name, and two names that have none at first.
MessageNames == DOMAIN DefaultHandlers \cup {<<"read">>, <<"remove">>}

MessageInputs ==
    {NoData} \cup
    {MessageData(key, value, windowId, permission) :
        key \in ChannelKeys, value \in ChannelValues, windowId \in ChannelOrigins,
        permission \in {Permission(TRUE, FALSE, {}), Permission(FALSE, TRUE, {})}}

NextMessages ==
    \/ \E name \in MessageNames, data \in MessageInputs :
          HandleMessage(name, data, {})
    \/ \E handler \in {<<"get">>, <<"delete">>} :
          RegisterMessageHandler(<<"read">>, handler)
    \/ \E windowId \in ChannelOrigins \ {Undefined} :
          RegisterWindowPort(windowId, FALSE, FALSE, FALSE)

SpecMessages == Init /\ [][NextMessages]_vars

\* Writes and deletes of two keys by windows inside and outside the
\* permissions set on them, with a channel registered.
RejectionPermissions ==
    {Permission(TRUE, FALSE, {}), Permission(FALSE, TRUE, {<<"w1">>})}

NextRejections ==
    \/ \E key \in Keys, value \in ChannelValues,
          windowId \in BridgeWindows \cup {Undefined} :
          SetData(key, value, windowId, Undefined, {})
    \/ \E key \in Keys, windowId \in BridgeWindows \cup {Undefined} :
          DeleteData(key, windowId, Undefined, {})
    \/ \E key \in Keys, permission \in RejectionPermissions :
          SetFieldPermission(key, permission)
    \/ \E windowId \in ChannelOrigins \ {Undefined} :
          RegisterWindowPort(windowId, FALSE, FALSE, FALSE)

SpecRejections == Init /\ [][NextRejections]_vars

\* Permissions set directly and by 'set-permission' messages, and writes
\* by windows inside and outside them.
GrantInputs ==
    {MessageData(key, Undefined, windowId, permission) :
        key \in ChannelKeys, windowId \in ChannelOrigins,
        permission \in RejectionPermissions}

NextGrants ==
    \/ \E key \in ChannelKeys, value \in Values,
          windowId \in BridgeWindows \cup {Undefined} :
          SetData(key, value, windowId, Undefined, {})
    \/ \E key \in ChannelKeys, permission \in PermissionInputs :
          SetFieldPermissionOver(key, permission)
    \/ \E data \in GrantInputs : HandleMessage(<<"set-permission">>, data, {})

SpecGrants == Init /\ [][NextGrants]_vars

(***************************************************************************)
(* Properties of the registry.                                             *)
(***************************************************************************)
\* C1: in every reachable state the name -> id index and the id -> name index
\* are inverse of each other, and no two registered ids share a name.
C1_BijectiveNaming ==
    /\ \A n \in DOMAIN windowNames :
          windowNames[n] \in DOMAIN windowIds /\ windowIds[windowNames[n]] = n
    /\ \A i \in DOMAIN windowIds :
          windowIds[i] \in DOMAIN windowNames /\ windowNames[windowIds[i]] = i
    /\ \A i, j \in DOMAIN windows :
          i # j => getNameByWindowId(Store, i) # getNameByWindowId(Store, j)

\* C6: after removeWindow(id) on a registered id no index holds an entry for
\* id, and main is empty if the removed handle was main.
C6_RemoveClearsIndices ==
    (last.op = "removeWindow" /\ last.window # NoWindow) =>
        /\ last.id \notin DOMAIN windows
        /\ last.id \notin DOMAIN windowIds
        /\ \A n \in DOMAIN windowNames : windowNames[n] # last.id
        /\ \A w \in DOMAIN windowInstanceIds : windowInstanceIds[w] # last.id
        /\ mainWindow # last.window

\* C7: createWindow is rejected with the capacity error exactly when the
\* registry holds MAX_WINDOWS records (so it succeeds at MAX_WINDOWS - 1, and
\* then registers the handle under the returned id), and the number of
\* records never exceeds MAX_WINDOWS.
C7_Capacity ==
    [][/\ Cardinality(DOMAIN windows') <= MAX_WINDOWS
       /\ last'.op = "createWindow" =>
             /\ last'.res = CapacityError <=>
                   Cardinality(DOMAIN windows) = MAX_WINDOWS
             /\ last'.res # CapacityError =>
                   /\ last'.res \in DOMAIN windows'
                   /\ windows'[last'.res] = last'.window]_vars

\* a createWindow call was rejected at capacity
C7_Witness ==
    /\ last.op = "createWindow"
    /\ last.res = CapacityError
    /\ Cardinality(DOMAIN windows) = MAX_WINDOWS

\* C8: a record registered while main is empty becomes main, a later
\* registration leaves a non-empty main alone, and removing the main record
\* sets main to empty.
C8_MainRotation ==
    [][/\ (last'.op = "createWindow" /\ last'.res # CapacityError) =>
             mainWindow' = IF mainWindow = NoWindow THEN last'.window
                           ELSE mainWindow
       /\ (last'.op = "removeWindow" /\ last'.window # NoWindow
                                     /\ last'.window = mainWindow) =>
             mainWindow' = NoWindow]_vars

\* C9: getTargetWindow(x) answers the focused live window or else main when x
\* is absent, the handle of id x when x is a registered id, and otherwise the
\* handle registered under the name x, or nothing.
C9_Resolve ==
    last.op = "getTargetWindow" =>
        last.window =
            IF last.id = Undefined
            THEN IF last.focusedWindow # NoWindow
                    /\ last.focusedWindow \notin destroyed
                 THEN last.focusedWindow
                 ELSE mainWindow
            ELSE IF last.id \in DOMAIN windows THEN windows[last.id]
            ELSE IF last.id \in DOMAIN windowNames
                    /\ windowNames[last.id] \in DOMAIN windows
                 THEN windows[windowNames[last.id]]
                 ELSE NoWindow

\* x is a registered id and also the name of a different record, and
\* getTargetWindow(x) was asked
C9_Witness ==
    /\ last.op = "getTargetWindow"
    /\ last.id \in DOMAIN windows
    /\ last.id \in DOMAIN windowNames
    /\ windowNames[last.id] # last.id
    /\ windowNames[last.id] \in DOMAIN windows
    /\ windows[windowNames[last.id]] # windows[last.id]

(***************************************************************************)
(* Properties of WindowCreator.                                            *)
(***************************************************************************)
\* C4: when every showWindow pass finds the window missing or destroyed, one
\* createAndShow makes exactly 3 recovery cycles and 4 calls of the frame's
\* create, and never calls show.
C4_RecoveryBound ==
    (creator.variant = "retry" /\ creator.pc = "done" /\ creator.allFailed) =>
        /\ creator.recoveries = MaxRetries
        /\ creator.factoryCalls = MaxRetries + 1
        /\ \A w \in hostWindows :
              /\ shown[w] = 0
              /\ \A k \in 1..Len(readyListeners[w]) :
                    readyListeners[w][k].kind # "show"

\* C5: createAndShow with a supplied id that is registered with a destroyed
\* handle calls the frame's create once, reports isNew, and leaves a
\* non-destroyed handle registered under the id.
C5_StaleRecreated ==
    (last.op = "createAndShow" /\ creator.variant = "current"
                               /\ creator.stale) =>
        /\ creator.factoryCalls = 1
        /\ creator.firstIsNew
        /\ hasById(Store, creator.supplied)
        /\ getWindowById(Store, creator.supplied) \notin destroyed

(***************************************************************************)
(* Properties of WindowBridge.                                             *)
(***************************************************************************)
\* C2: setData on a key whose permission is readonly answers
\* {success: false, error} for every origin window and without an origin, and
\* getData(key) is the same after the call as before it.
C2_ReadonlyRejected ==
    [][\A key \in Keys :
          (/\ last'.op = "setData" /\ last'.key = key
           /\ getItem(Bridge, key).permission.present
           /\ getItem(Bridge, key).permission.readonly) =>
              /\ ~last'.res.success
              /\ last'.res.error # Undefined
              /\ getData(Bridge, key)' = getData(Bridge, key)]_vars

\* a readonly key holds a value and a setData without origin, carrying
\* another value, was rejected
C2_Witness ==
    /\ last.op = "setData"
    /\ ~last.res.success
    /\ last.windowId = Undefined
    /\ getItem(Bridge, last.key).permission.readonly
    /\ getData(Bridge, last.key) # Undefined
    /\ getData(Bridge, last.key) # last.value

\* C3: on a key whose permission is not readonly and has allowedWindows = S,
\* setData from an origin outside S answers {success: false, error} and leaves
\* the value alone; setData from an origin in S, or without origin, succeeds
\* and stores the value.
C3_AllowedWindows ==
    [][\A key \in Keys :
          (/\ last'.op = "setData" /\ last'.key = key
           /\ getItem(Bridge, key).permission.present
           /\ ~getItem(Bridge, key).permission.readonly
           /\ getItem(Bridge, key).permission.hasAllowed) =>
              IF /\ last'.windowId # Undefined
                 /\ last'.windowId \notin getItem(Bridge, key).permission.allowedWindows
              THEN /\ ~last'.res.success
                   /\ last'.res.error # Undefined
                   /\ getData(Bridge, key)' = getData(Bridge, key)
              ELSE /\ last'.res.success
                   /\ getData(Bridge, key)' = last'.value]_vars

\* a key restricted to a non-empty allow-list was written without an origin
C3_Witness ==
    /\ last.op = "setData"
    /\ last.res.success
    /\ last.windowId = Undefined
    /\ getItem(Bridge, last.key).permission.hasAllowed
    /\ getItem(Bridge, last.key).permission.allowedWindows # {}
    /\ ~getItem(Bridge, last.key).permission.readonly
    /\ getData(Bridge, last.key) = last.value

\* the successful calls whose event was posted on the port, in posting order
postedCalls(port) ==
    [i \in 1..Len(ports[port].posted) |-> ports[port].posted[i].call]

\* the successful calls made since the port was registered, in call order
callsSince(port) ==
    [i \in 1..(calls - ports[port].since) |-> ports[port].since + i]

\* C10 as stated: every registered channel has received exactly one event for
\* each successful setData/deleteData call made since its registration, in
\* the order of the calls.
C10_ExactlyOnePerCall ==
    \A k \in 1..Len(windowPorts) :
        postedCalls(windowPorts[k].port) = callsSince(windowPorts[k].port)

\* C10: every registered channel has received, in the order of the calls, one
\* event for each successful setData/deleteData call made since its
\* registration whose postMessage on that channel did not throw, and none
\* for the others.
C10_BroadcastOrder ==
    \A k \in 1..Len(windowPorts) :
        LET port == windowPorts[k].port
            sent(n) == <<port, n>> \notin sendFailed
        IN  postedCalls(port) = SelectSeq(callsSince(port), sent)

\* two channels were registered before two successful calls: one received
\* both events in call order, the other received only the second because
\* its postMessage threw for the first
C10_Witness ==
    \E k, m \in 1..Len(windowPorts) :
        LET port == windowPorts[k].port
            other == windowPorts[m].port
        IN  /\ calls = 2 /\ ports[port].since = 0 /\ ports[other].since = 0
            /\ <<port, 1>> \in sendFailed
            /\ postedCalls(port) = <<2>>
            /\ postedCalls(other) = <<1, 2>>

\* C11: when a postMessage throws during the broadcast of a setData or
\* deleteData call, the call answers success, the store holds the mutation,
\* every channel whose postMessage did not throw has received the event once,
\* and nothing was posted on a channel whose postMessage threw.
C11_SendFailureIsolated ==
    [][(last'.op \in {"setData", "deleteData"} /\ sendFailed' # sendFailed) =>
          /\ last'.res.success
          /\ calls' = calls + 1
          /\ \A key \in Keys :
                last'.key = key => getData(Bridge, key)' = last'.value
          /\ windowPorts' = windowPorts
          /\ \A k \in 1..Len(windowPorts) :
                LET port == windowPorts[k].port
                IN  IF <<port, calls'>> \in sendFailed'
                    THEN ports'[port].posted = ports[port].posted
                    ELSE /\ Len(ports'[port].posted) = Len(ports[port].posted) + 1
                         /\ SubSeq(ports'[port].posted, 1, Len(ports[port].posted))
                               = ports[port].posted
                         /\ ports'[port].posted[Len(ports'[port].posted)].call
                               = calls']_vars

\* a setData was broadcast to two channels: the postMessage of the first one
\* threw, the second one received the event, and the value is stored
C11_Witness ==
    /\ last.op = "setData"
    /\ last.res.success
    /\ getData(Bridge, last.key) = last.value
    /\ Len(windowPorts) = 2
    /\ <<windowPorts[1].port, calls>> \in sendFailed
    /\ ports[windowPorts[1].port].posted = <<>>
    /\ postedCalls(windowPorts[2].port) = <<calls>>

\* the ports on which the step posted a message
postedOn ==
    {p \in 1..Len(ports) : ports'[p].posted # ports[p].posted}

\* C12: windowPorts holds at most one channel per window id; a port that
\* left windowPorts (by unregistration or by a new registration for its
\* window) was closed exactly once and a registered one never; a broadcast
\* posts nothing on a closed port and at most one message per window id,
\* and one on every registered port whose postMessage does not throw;
\* registerWindowPort leaves the new port as the channel of its window.
C12_OneChannelPerWindow ==
    [][/\ \A k, m \in 1..Len(windowPorts') :
             windowPorts'[k].windowId = windowPorts'[m].windowId => k = m
       /\ \A p \in 1..Len(ports') :
             ports'[p].closes = IF p \in RegisteredPorts' THEN 0 ELSE 1
       /\ \A p \in postedOn : ports[p].closes = 0 /\ p \in RegisteredPorts
       /\ \A w \in BridgeWindows :
             Cardinality({p \in postedOn : ports[p].windowId = w}) <= 1
       /\ calls' = calls + 1 =>
             \A k \in 1..Len(windowPorts) :
                 <<windowPorts[k].port, calls'>> \notin sendFailed' =>
                     windowPorts[k].port \in postedOn
       /\ last'.op = "registerWindowPort" =>
             /\ Len(ports') = Len(ports) + 1
             /\ \E k \in 1..Len(windowPorts') :
                   /\ windowPorts'[k].windowId = last'.windowId
                   /\ windowPorts'[k].port = Len(ports')]_vars

\* a channel was registered twice for one window, with a successful call
\* after each registration: the first port was closed once and holds the
\* first event only, the second port holds the second event only
C12_Witness ==
    /\ Len(ports) = 2
    /\ ports[1].windowId = ports[2].windowId
    /\ Len(windowPorts) = 1 /\ windowPorts[1].port = 2
    /\ ports[1].closes = 1 /\ ports[2].closes = 0
    /\ postedCalls(1) = <<1>>
    /\ postedCalls(2) = <<2>>

(***************************************************************************)
(* Further properties of WindowCreator.                                    *)
(***************************************************************************)
\* C13: createAndShow with a supplied id that is registered with a handle
\* that is not destroyed calls the frame's create 0 times, reports isNew =
\* false, leaves the registry as it was, calls show once on that handle
\* before it returns, and returns the supplied id.
C13_Reuse ==
    [][(/\ last'.op = "createAndShow" /\ creator.pc = "none"
        /\ last'.id # Undefined
        /\ hasById(Store, last'.id)
        /\ getWindowById(Store, last'.id) \notin destroyed) =>
          /\ creator'.factoryCalls = 0
          /\ ~creator'.firstIsNew
          /\ storeVars' = storeVars
          /\ hostWindows' = hostWindows
          /\ shown' = [shown EXCEPT ![getWindowById(Store, last'.id)] = @ + 1]
          /\ readyListeners' = readyListeners
          /\ creator'.pc = "done"
          /\ last'.res = last'.id]_vars

\* createAndShow reused the live window registered under the supplied id and
\* showed it
C13_Witness ==
    /\ last.op = "createAndShow"
    /\ last.id # Undefined /\ last.res = last.id
    /\ creator.pc = "done" /\ creator.factoryCalls = 0 /\ ~creator.firstIsNew
    /\ hasById(Store, last.id)
    /\ getWindowById(Store, last.id) \notin destroyed
    /\ shown[getWindowById(Store, last.id)] = 1

\* the number of pending 'ready-to-show' listeners of a window that call show
showListeners(listeners) ==
    Cardinality({k \in 1..Len(listeners) : listeners[k].kind = "show"})

\* C14: a window constructed by a createAndShow pass is not shown by the
\* pass and gets exactly one 'ready-to-show' listener that calls show; a
\* window with such a listener is shown by no step but the firing of its
\* 'ready-to-show', which shows it once and removes the listener; a
\* createAndShow that found its window registered and live (isNew = false)
\* shows it in the call itself, adding no listener.
C14_ShowAfterReady ==
    [][/\ \A w \in hostWindows' \ hostWindows :
             (last'.op \in {"createAndShow", "retry"} /\ creator'.pc # "threw") =>
                 /\ creator'.isNew
                 /\ shown'[w] = 0
                 /\ showListeners(readyListeners'[w]) = 1
       /\ \A w \in hostWindows :
             showListeners(readyListeners[w]) > 0 =>
                 /\ showListeners(readyListeners[w]) = 1
                 /\ IF w \in readyFired' \ readyFired
                    THEN /\ shown'[w] = shown[w] + 1
                         /\ showListeners(readyListeners'[w]) = 0
                    ELSE shown'[w] = shown[w]
       /\ (/\ last'.op = "createAndShow" /\ creator.pc = "none"
           /\ creator'.pc = "done" /\ ~creator'.isNew /\ ~creator'.allFailed) =>
             /\ readyListeners' = readyListeners
             /\ \E w \in hostWindows :
                   shown' = [shown EXCEPT ![w] = @ + 1]]_vars

\* the only window of the host was constructed by createAndShow, its
\* 'ready-to-show' has fired and it was shown once
C14_Witness ==
    /\ creator.pc = "done" /\ creator.firstIsNew /\ creator.factoryCalls = 1
    /\ hostWindows = {1}
    /\ getWindowById(Store, creator.returned) = 1
    /\ 1 \in readyFired
    /\ shown[1] = 1
    /\ readyListeners[1] = <<>>

(***************************************************************************)
(* Further properties of WindowBridge.                                     *)
(***************************************************************************)
\* the value of a property in a posted message, Undefined when it is left out
property(message, name) ==
    LET found == {k \in 1..Len(message) : message[k][1] = name}
    IN  IF found = {} THEN Undefined
        ELSE message[CHOOSE k \in found : TRUE][2]

\* C15: deleteData is rejected exactly when setData on the same key from the
\* same origin is: when the key is readonly, or has an allow-list that
\* misses a supplied origin.  A rejected delete answers {success: false,
\* error} and changes nothing; a permitted one removes the value and posts
\* on every channel one message of type delete carrying the value held
\* before the call as oldValue, and no value.
C15_DeleteGate ==
    [][\A key \in Keys :
          (last'.op = "deleteData" /\ last'.key = key) =>
              LET permission == getItem(Bridge, key).permission
                  oldValue == getData(Bridge, key)
                  rejected ==
                      \/ permission.present /\ permission.readonly
                      \/ /\ permission.present /\ permission.hasAllowed
                         /\ last'.windowId # Undefined
                         /\ last'.windowId \notin permission.allowedWindows
              IN  /\ \A value \in Values :
                        setData(Bridge, key, value, last'.windowId, Undefined, {})
                            .res.success = last'.res.success
                  /\ last'.res.success = ~rejected
                  /\ rejected =>
                        /\ last'.res.error # Undefined
                        /\ UNCHANGED bridgeVars
                  /\ ~rejected =>
                        /\ getData(Bridge, key)' = Undefined
                        /\ calls' = calls + 1
                        /\ \A p \in RegisteredPorts :
                              /\ Len(ports'[p].posted) = Len(ports[p].posted) + 1
                              /\ LET message == ports'[p].posted[Len(ports'[p].posted)].message
                                 IN  /\ property(message, "type") = <<"delete">>
                                     /\ property(message, "key") = key
                                     /\ property(message, "oldValue") = oldValue
                                     /\ property(message, "value") = Undefined
                                     /\ property(message, "windowId") = last'.windowId]_vars

\* a key held a value, a window deleted it, and a registered channel
\* received the delete event with that value as oldValue
C15_Witness ==
    /\ last.op = "deleteData" /\ last.res.success
    /\ last.windowId # Undefined
    /\ getData(Bridge, last.key) = Undefined
    /\ \E p \in RegisteredPorts :
          /\ ports[p].posted # <<>>
          /\ LET message == ports[p].posted[Len(ports[p].posted)].message
             IN  /\ property(message, "type") = <<"delete">>
                 /\ property(message, "oldValue") \in Values
                 /\ property(message, "windowId") = last.windowId

(***************************************************************************)
(* Termination of createAndShow.                                           *)
(***************************************************************************)
\* the invocation is over: nothing more is scheduled
creatorTerminal == creator.pc \in {"done", "threw"}

\* C16: a createAndShow invocation with a retry scheduled reaches its end,
\* and an invocation that is over has shown its window or put the show on
\* the window's 'ready-to-show', or else has returned normally after exactly
\* 3 recovery cycles that all failed.
C16_Terminates ==
    /\ (creator.pc = "delay") ~> creatorTerminal
    /\ [](creatorTerminal =>
            \/ creator.pc = "done" /\ ~creator.allFailed
            \/ /\ creator.pc = "done" /\ creator.allFailed
               /\ creator.recoveries = MaxRetries
               /\ creator.retryCount = MaxRetries)

dispatched ==
    \A k \in 1..Len(windowPorts) :
        \/ windowPorts[k].port \in postedOn
        \/ <<windowPorts[k].port, calls'>> \in sendFailed'

\* C18: when setData(k, v) has returned success, getData(k) is v and the
\* snapshot getData() maps k to v; when deleteData(k) has returned success
\* the snapshot has no k; in both cases postMessage has been called on every
\* registered port and the local event has been emitted.
C18_ReadYourWrites ==
    [][\A key \in Keys :
          (/\ last'.op \in {"setData", "deleteData"} /\ last'.key = key
           /\ last'.res.success) =>
              /\ calls' = calls + 1
              /\ dispatched
              /\ Len(emitted') = Len(emitted) + 1
              /\ IF last'.op = "setData"
                 THEN /\ getData(Bridge, key)' = last'.value
                      /\ key \in DOMAIN getData(Bridge, Undefined)'
                      /\ getData(Bridge, Undefined)'[key] = last'.value
                 ELSE /\ getData(Bridge, key)' = Undefined
                      /\ key \notin DOMAIN getData(Bridge, Undefined)']_vars

\* setData replaced a value while two channels were registered: both hold
\* the event of this call, and both reads give the new value
C18_Witness ==
    /\ last.op = "setData" /\ last.res.success
    /\ getData(Bridge, last.key) = last.value
    /\ getData(Bridge, Undefined)[last.key] = last.value
    /\ Len(windowPorts) = 2
    /\ \A k \in 1..2 :
          LET posted == ports[windowPorts[k].port].posted
          IN  /\ posted # <<>>
              /\ posted[Len(posted)].call = calls
              /\ property(posted[Len(posted)].message, "oldValue") \in Values
              /\ property(posted[Len(posted)].message, "value") = last.value

(***************************************************************************)
(* The id createAndShow returns.                                           *)
(***************************************************************************)
\* the windows a step shows or schedules for show on 'ready-to-show'
revealedBy ==
    {w \in hostWindows' :
        \/ w \notin hostWindows /\ showListeners(readyListeners'[w]) > 0
        \/ w \in hostWindows /\ shown'[w] > shown[w]
        \/ /\ w \in hostWindows
           /\ showListeners(readyListeners'[w]) > showListeners(readyListeners[w])}

\* C19: createAndShow returns in the call itself, whether or not a retry or
\* a show on 'ready-to-show' is pending; it returns the supplied id when
\* that id's live window is reused or a window is constructed under it, and
\* the id the registry gave to the constructed window when no id was
\* supplied; a window that a pass of the invocation shows or schedules for
\* show is the one the returned id is registered for.
C19_ReturnedId ==
    [][/\ (last'.op = "createAndShow" /\ creator.pc = "none"
                                      /\ creator'.pc # "threw") =>
             /\ last'.res = creator'.returned
             /\ (/\ last'.id # Undefined /\ hasById(Store, last'.id)
                 /\ getWindowById(Store, last'.id) \notin destroyed) =>
                   last'.res = last'.id
             /\ \A w \in hostWindows' \ hostWindows :
                   /\ last'.id # Undefined => last'.res = last'.id
                   /\ last'.res # Undefined
                   /\ MapGet(windows', last'.res, NoWindow) = w
       /\ (last'.op \in {"createAndShow", "retry"}
           /\ creator.pc \in {"none", "delay"}) =>
             \A w \in revealedBy :
                 /\ creator'.returned # Undefined
                 /\ MapGet(windows', creator'.returned, NoWindow) = w]_vars

(***************************************************************************)
(* Permissions across writes.                                              *)
(***************************************************************************)
\* C20: a successful setData(key, ...) leaves the permission of the key as
\* it was, also when the permission was set before the key had a value.
C20_PermissionKept ==
    [][\A key \in Keys :
          (last'.op = "setData" /\ last'.key = key /\ last'.res.success) =>
              /\ getItem(Bridge, key)'.permission = getItem(Bridge, key).permission
              /\ getItem(Bridge, key)'.value = last'.value]_vars

\* a key given an allow-list before it had a value was written twice by a
\* window on the list and still has the allow-list
C20_Witness ==
    /\ last.op = "setData" /\ last.res.success
    /\ last.windowId \in BridgeWindows
    /\ calls = 2
    /\ \A k \in 1..Len(emitted) : emitted[k].key = last.key
    /\ getItem(Bridge, last.key).permission.hasAllowed
    /\ getItem(Bridge, last.key).permission.allowedWindows = {last.windowId}
    /\ getItem(Bridge, last.key).value = last.value

(***************************************************************************)
(* setFieldPermission.                                                     *)
(***************************************************************************)
\* C21: setFieldPermission(key, p) leaves getData(key) as it was: an existing
\* key keeps its value and gets the permission p, an unknown key becomes an
\* entry with an empty value and the permission p; the entries of the other
\* keys stay as they were, nothing is posted on a channel and nothing is
\* emitted.
C21_PermissionOnly ==
    [][\A key \in Keys :
          (last'.op = "setFieldPermission" /\ last'.key = key) =>
              /\ getData(Bridge, key)' = getData(Bridge, key)
              /\ DOMAIN dataStore' = DOMAIN dataStore \cup {key}
              /\ dataStore'[key].permission = last'.permission
              /\ dataStore'[key].value =
                    IF key \in DOMAIN dataStore THEN dataStore[key].value
                    ELSE Undefined
              /\ \A other \in DOMAIN dataStore \ {key} :
                    dataStore'[other] = dataStore[other]
              /\ UNCHANGED <<windowPorts, ports, emitted, calls, sendFailed>>]_vars

\* with a channel registered, a key that holds a value was made readonly
\* while another key holds a value under a different permission
C21_Witness ==
    /\ last.op = "setFieldPermission"
    /\ windowPorts # <<>>
    /\ getData(Bridge, last.key) \in Values
    /\ getItem(Bridge, last.key).permission = last.permission
    /\ last.permission.readonly
    /\ \E other \in DOMAIN dataStore \ {last.key} :
          /\ dataStore[other].value \in Values
          /\ dataStore[other].permission.present
          /\ dataStore[other].permission # last.permission
    /\ \A k \in 1..Len(windowPorts) : Len(ports[windowPorts[k].port].posted) = 1
    /\ Len(emitted) = 2

(***************************************************************************)
(* removeWindow on an id without a record, and applied twice.              *)
(***************************************************************************)
\* C22: removeWindow(id) for an id that has neither a handle nor a name
\* registered leaves every index, main and the host as they were, whether or
\* not a close() would throw; and for every id, removeWindow(id) applied a
\* second time leaves the registry as the first application left it.
C22_RemoveIdempotent ==
    \A id \in AllIds, closeThrows, again \in BOOLEAN :
        /\ (~hasById(Store, id) /\ id \notin DOMAIN windowIds) =>
              removeWindow(Store, id, closeThrows) = Store
        /\ removeWindow(removeWindow(Store, id, closeThrows), id, again)
              = removeWindow(Store, id, closeThrows)

\* removeWindow was called for an id without a record, after an earlier
\* removeWindow closed a window, while another record is registered and is
\* main
C22_Witness ==
    /\ last.op = "removeWindow"
    /\ last.window = NoWindow
    /\ ~hasById(Store, last.id) /\ last.id \notin DOMAIN windowIds
    /\ \E w \in destroyed : w \notin DOMAIN windowInstanceIds
    /\ mainWindow # NoWindow
    /\ DOMAIN windows # {}

(***************************************************************************)
(* unregisterWindowPort.                                                   *)
(***************************************************************************)
\* C23: unregisterWindowPort(w) for a window with a channel calls close()
\* on its port once and removes the channel, also when close() throws, and
\* changes nothing else; for a window without a channel (never registered,
\* or unregistered before) it changes nothing and closes nothing; a port
\* that is no longer registered is never closed again, never registered
\* again, and no later broadcast posts on it.
C23_Unregister ==
    [][/\ \A w \in BridgeWindows :
             (last'.op = "unregisterWindowPort" /\ last'.windowId = w) =>
                 LET k == portIndex(Bridge, w)
                 IN  IF k = 0 THEN UNCHANGED bridgeVars
                     ELSE /\ ports' = [ports EXCEPT
                                          ![windowPorts[k].port].closes = 1]
                          /\ ports[windowPorts[k].port].closes = 0
                          /\ windowPorts' = SubSeq(windowPorts, 1, k - 1)
                                \o SubSeq(windowPorts, k + 1, Len(windowPorts))
                          /\ \A m \in 1..Len(windowPorts') :
                                windowPorts'[m].windowId # w
                          /\ UNCHANGED <<dataStore, emitted, calls, sendFailed>>
       /\ \A p \in 1..Len(ports) :
             p \notin RegisteredPorts =>
                 /\ ports'[p].closes = ports[p].closes
                 /\ ports'[p].posted = ports[p].posted
                 /\ p \notin RegisteredPorts'
                 /\ \A n \in 1..MaxCalls : <<p, n>> \in sendFailed' =>
                                               <<p, n>> \in sendFailed]_vars

\* a channel that had received one event was unregistered with a close()
\* that threw: it is gone from windowPorts and was closed once
C23_Witness ==
    /\ last.op = "unregisterWindowPort"
    /\ last.closeThrows
    /\ \A k \in 1..Len(windowPorts) : windowPorts[k].windowId # last.windowId
    /\ \E p \in 1..Len(ports) :
          /\ ports[p].windowId = last.windowId
          /\ p \notin RegisteredPorts
          /\ ports[p].closes = 1
          /\ Len(ports[p].posted) = 1
    /\ windowPorts # <<>>

(***************************************************************************)
(* handleMessage.                                                          *)
(***************************************************************************)
\* C24: handleMessage(name, data) with a name that has no handler at the
\* call, with or without data, returns null, raises nothing, and leaves the
\* store, the channels, the emitted events and the handlers as they were.
C24_UnknownName ==
    [][\A name \in MessageNames :
          (/\ last'.op = "handleMessage" /\ last'.name = name
           /\ name \notin DOMAIN messageHandlers) =>
              /\ last'.isNull
              /\ ~last'.threw
              /\ UNCHANGED bridgeVars]_vars

\* with a value stored and a channel registered, a message named 'remove'
\* carrying the key of that value was handled: null came back and the value
\* is still there
C24_Witness ==
    /\ last.op = "handleMessage"
    /\ last.name = <<"remove">>
    /\ last.isNull
    /\ last.data.present
    /\ getData(Bridge, last.data.key) \in Values
    /\ windowPorts # <<>>
    /\ <<"read">> \in DOMAIN messageHandlers

(***************************************************************************)
(* winClose and the window operations.                                     *)
(***************************************************************************)
\* C25: after winClose(id) no index holds an entry for id (no handle, no
\* name, no reverse entry), whether id was registered with a live handle,
\* with a destroyed handle, or not at all, and the call has invoked
\* app.quit() exactly once.
C25_CloseRemoves ==
    last.op = "winClose" =>
        /\ last.id \notin DOMAIN windows
        /\ last.id \notin DOMAIN windowIds
        /\ \A n \in DOMAIN windowNames : windowNames[n] # last.id
        /\ \A w \in DOMAIN windowInstanceIds : windowInstanceIds[w] # last.id
        /\ last.quits = 1

C27_CreateExisting ==
    \A name \in CreatorNames \cup {Undefined},
       windowId \in CreatorIds \cup {Undefined} :
        LET r == managerCreate(Store, [name |-> name, windowId |-> windowId])
        IN  /\ (name # Undefined /\ hasByName(Store, name) /\ windowId = Undefined) =>
                  /\ r.s = Store
                  /\ ~r.threw
                  /\ r.res = getWindowByNameId(Store, name)
            /\ (windowId # Undefined /\ hasById(Store, windowId) /\ name = Undefined) =>
                  /\ r.s = Store
                  /\ ~r.threw
                  /\ r.res = windowId

(***************************************************************************)
(* Permissions across deleteData.                                          *)
(***************************************************************************)
\* C28: a successful deleteData(key) on a key that has a permission leaves
\* that permission in place: every setData on the key that would have been
\* rejected before the delete is rejected after it.
C28_PermissionSurvivesDelete ==
    [][\A key \in Keys :
          (/\ last'.op = "deleteData" /\ last'.key = key /\ last'.res.success
           /\ getItem(Bridge, key).permission.present) =>
              /\ getItem(Bridge, key)'.permission = getItem(Bridge, key).permission
              /\ \A value \in Values, windowId \in BridgeWindows \cup {Undefined} :
                    ~setData(Bridge, key, value, windowId, Undefined, {}).res.success
                    => ~setData(Bridge, key, value, windowId, Undefined, {})'
                            .res.success]_vars

(***************************************************************************)
(* The cleanup of the recovery branch.                                     *)
(***************************************************************************)
\* C29: when a showWindow pass takes the recovery branch for the id X, its
\* cleanup leaves no entry for X before the retry is run: hasById(X) is
\* false, no name maps to X, and X has no id -> name entry.
C29_CleanupComplete ==
    [][\A X \in AllIds :
          (/\ last'.op \in {"createAndShow", "retry"}
           /\ creator'.pc = "delay" /\ creator'.winId = X) =>
              /\ ~hasById(Store, X)'
              /\ \A n \in DOMAIN windowNames' : windowNames'[n] # X
              /\ X \notin DOMAIN windowIds']_vars

(***************************************************************************)
(* updateWindowName.                                                       *)
(***************************************************************************)
\* C30: updateWindowName(id, newName) for a registered id leaves newName
\* mapped to id and id mapped to newName, removes the name id had before
\* (when that is another name) from the name index, and changes no other
\* name entry, no other id -> name entry, no handle and not main; it does so
\* whether or not newName was held by another record, which then no longer
\* is what newName resolves to.
C30_Rename ==
    [][\A id \in AllIds, newName \in NewNames :
          (/\ last'.op = "updateWindowName" /\ last'.id = id
           /\ last'.name = newName /\ hasById(Store, id)) =>
              /\ getWindowByNameId(Store, newName)' = id
              /\ getWindowByName(Store, newName)' = getWindowById(Store, id)
              /\ getNameByWindowId(Store, id)' = newName
              /\ getNameByWindowId(Store, id) # newName =>
                    getNameByWindowId(Store, id) \notin DOMAIN windowNames'
              /\ DOMAIN windowNames' =
                    (DOMAIN windowNames \ {getNameByWindowId(Store, id)})
                        \cup {newName}
              /\ \A n \in DOMAIN windowNames' \ {newName} :
                    windowNames'[n] = windowNames[n]
              /\ DOMAIN windowIds' = DOMAIN windowIds
              /\ \A i \in DOMAIN windowIds \ {id} : windowIds'[i] = windowIds[i]
              /\ UNCHANGED <<windows, windowInstanceIds, mainWindow, hostVars>>]_vars

\* a record was renamed to the name another registered record holds: the
\* name now resolves to the renamed record, and the other record is still
\* registered under its id
C30_Witness ==
    /\ last.op = "updateWindowName"
    /\ hasById(Store, last.id)
    /\ last.holder # Undefined /\ last.holder # last.id
    /\ hasById(Store, last.holder)
    /\ last.currentName # Undefined /\ last.currentName # last.name
    /\ getWindowByNameId(Store, last.name) = last.id
    /\ getNameByWindowId(Store, last.id) = last.name
    /\ getNameByWindowId(Store, last.holder) = last.name
    /\ ~hasByName(Store, last.currentName)

(***************************************************************************)
(* The origin of a change and its own channel.                             *)
(***************************************************************************)
\* C31: a successful setData or deleteData with the origin window W calls
\* postMessage on the port of every registered window other than W and not
\* on the port registered for W, and emits the local event.
C31_OriginExcluded ==
    [][\A W \in BridgeWindows :
          (/\ last'.op \in {"setData", "deleteData"} /\ last'.res.success
           /\ last'.windowId = W) =>
              /\ Len(emitted') = Len(emitted) + 1
              /\ \A k \in 1..Len(windowPorts) :
                    LET port == windowPorts[k].port
                        called == \/ port \in postedOn
                                  \/ <<port, calls'>> \in sendFailed'
                    IN  IF windowPorts[k].windowId = W THEN ~called
                        ELSE called]_vars

(***************************************************************************)
(* Rejected writes and deletes.                                            *)
(***************************************************************************)
\* C32: a setData or deleteData call that answers {success: false} posts
\* nothing on any channel, emits nothing, and leaves the store as it was:
\* the value and the permission of every key, the channels, and the count
\* of successful calls.
C32_RejectedChangesNothing ==
    [][(last'.op \in {"setData", "deleteData"} /\ ~last'.res.success) =>
          /\ last'.res.error # Undefined
          /\ dataStore' = dataStore
          /\ postedOn = {}
          /\ emitted' = emitted
          /\ UNCHANGED <<windowPorts, ports, calls, sendFailed>>]_vars

\* a window outside the allow-list of a key tried to delete it while another
\* key holds a value and a channel that has received one event is
\* registered: the key still has its value and its allow-list
C32_Witness ==
    /\ last.op = "deleteData" /\ ~last.res.success
    /\ last.windowId \in BridgeWindows
    /\ getItem(Bridge, last.key).permission.hasAllowed
    /\ last.windowId \notin getItem(Bridge, last.key).permission.allowedWindows
    /\ getData(Bridge, last.key) \in Values
    /\ \E other \in DOMAIN dataStore \ {last.key} : dataStore[other].value \in Values
    /\ windowPorts # <<>>
    /\ \A k \in 1..Len(windowPorts) : Len(ports[windowPorts[k].port].posted) = 1
    /\ Len(emitted) = 2

(***************************************************************************)
(* The windows WindowManager.create constructs.                            *)
(***************************************************************************)
\* C33: when WindowManager.create returns or throws, every window it
\* constructed has a record: the handle is registered under an id, also
\* when the registry was at capacity at the call.
C33_ConstructedRegistered ==
    [][last'.op = "create" =>
          \A w \in hostWindows' \ hostWindows :
              /\ w \in DOMAIN windowInstanceIds'
              /\ MapGet(windows', windowInstanceIds'[w], NoWindow) = w]_vars

(***************************************************************************)
(* The indices of the registry under all public operations.                *)
(***************************************************************************)
\* C34: the id -> handle index and the id -> name index have the same keys,
\* and every id that a name maps to is a key of the id -> handle index.
C34_IndicesAgree ==
    /\ DOMAIN windows = DOMAIN windowIds
    /\ \A n \in DOMAIN windowNames : windowNames[n] \in DOMAIN windows

\* C35: main is empty or is the handle registered under some id.
C35_MainRegistered ==
    mainWindow # NoWindow => \E id \in DOMAIN windows : windows[id] = mainWindow

(***************************************************************************)
(* Two WindowCreator instances for one id.                                 *)
(***************************************************************************)
\* C36: whatever the interleaving of the passes of two WindowCreator
\* instances for the same id, a window that a pass constructed, and whose
\* show waits for 'ready-to-show', is shown by no step but the firing of
\* its 'ready-to-show'; and at most one window that is not destroyed counts
\* as the window of the id.
C36_RaceFree ==
    [][/\ \A w \in hostWindows :
             (showListeners(readyListeners[w]) > 0 /\ shown'[w] > shown[w]) =>
                 w \in readyFired' \ readyFired
       /\ \A X \in AllIds :
             Cardinality({w \in DOMAIN windowInstanceIds' :
                             /\ windowInstanceIds'[w] = X
                             /\ w \notin destroyed'}) <= 1]_vars

(***************************************************************************)
(* Local listeners.                                                        *)
(***************************************************************************)
\* C37: every listener registered on the event name in use receives the
\* change events in the order in which the store mutations they report were
\* applied, also when a listener registered before it writes from inside its
\* callback.
C37_MutationOrder ==
    \A k \in 1..Len(localListeners) :
        \A i, j \in 1..Len(localListeners[k].seen) :
            i < j => localListeners[k].seen[i] < localListeners[k].seen[j]

(***************************************************************************)
(* The deferred transfer of the remote endpoint.                           *)
(***************************************************************************)
\* C38: the remote endpoint of a channel is transferred to the window only
\* while its local endpoint is the one registered for the window: a channel
\* unregistered or replaced before 'did-finish-load' is never transferred.
C38_TransferRegistered ==
    [][\A p \in 1..Len(ports') :
          (/\ ports'[p].remote = "transferred"
           /\ (p > Len(ports) \/ ports[p].remote # "transferred"))
          => p \in RegisteredPorts']_vars

(***************************************************************************)
(* A createWindow rejected for capacity.                                   *)
(***************************************************************************)
\* C39: a createWindow call that throws the capacity error leaves the four
\* indices (id -> handle, name -> id, id -> name, handle -> id) and main as
\* they were before the call.
C39_RejectedCreateKeeps ==
    [][(last'.op = "createWindow" /\ last'.res = CapacityError) =>
          /\ windows' = windows
          /\ windowNames' = windowNames
          /\ windowIds' = windowIds
          /\ windowInstanceIds' = windowInstanceIds
          /\ mainWindow' = mainWindow]_vars

C39_Witness ==
    /\ last.op = "createWindow"
    /\ last.res = CapacityError
    /\ Cardinality(DOMAIN windowNames) = MAX_WINDOWS
    /\ last.window \in hostWindows
    /\ last.window \notin DOMAIN windowInstanceIds
    /\ mainWindow # NoWindow

(***************************************************************************)
(* Replacing a permission.                                                 *)
(***************************************************************************)
\* C40: setFieldPermission, and a 'set-permission' message that names a key,
\* is never refused: whatever the permission of the key was, readonly or an
\* allow-list, the key carries the given permission afterwards and keeps its
\* value; a setData succeeds exactly when the permission the key carries at
\* the call admits it.
C40_PermissionReplaced ==
    [][\A key \in Keys :
          /\ (last'.op = "setFieldPermission" /\ last'.key = key) =>
                /\ key \in DOMAIN dataStore'
                /\ dataStore'[key].permission = last'.permission
                /\ dataStore'[key].value = getItem(Bridge, key).value
          /\ (/\ last'.op = "handleMessage" /\ last'.name = <<"set-permission">>
              /\ last'.data.present /\ last'.data.key = key) =>
                /\ ~last'.threw /\ ~last'.isNull
                /\ key \in DOMAIN dataStore'
                /\ dataStore'[key].permission = last'.data.permission
                /\ dataStore'[key].value = getItem(Bridge, key).value
          /\ (last'.op = "setData" /\ last'.key = key) =>
                LET p == getItem(Bridge, key).permission
                IN  last'.res.success <=>
                       /\ ~(p.present /\ p.readonly)
                       /\ ~(/\ p.present /\ p.hasAllowed
                            /\ last'.windowId # Undefined
                            /\ last'.windowId \notin p.allowedWindows)]_vars

C40_Witness ==
    /\ last.op = "setFieldPermission"
    /\ last.previous.present /\ last.previous.readonly
    /\ ~dataStore[last.key].permission.readonly
    /\ dataStore[last.key].permission.hasAllowed
    /\ dataStore[last.key].value # Undefined

=============================================================================
